---- MODULE Spec2Model ----
(***************************************************************************)
(* Model of the stock viewer back end: the synchronization pipeline        *)
(* (stocks.Service.SyncStocks), the feed adapters that drive it            *)
(* (karenai.Client.FetchStocks, mocks.MockStocksFetcher.FetchStocks), the  *)
(* repository it writes to, and the identity fingerprint of a feed item.   *)
(*                                                                         *)
(* Time is a counter: every time.Now() read returns a value strictly       *)
(* larger than every earlier read; 0 is the zero time.Time.                *)
(* Price targets are fixed-point numbers in thousandths.                   *)
(***************************************************************************)
EXTENDS Integers, Sequences, FiniteSets, TLC

\* ------------------------------------------------------------------ bounds

\* Number of SyncStocks invocations made on the one Service instance.
NumCalls == 2

\* Longest stream an arbitrary StocksFetcher implementation delivers in a run.
MaxStream == 3

\* batchSize of SyncStocks (100 in the source), scaled down so that a flush
\* inside the loop happens on the streams the model explores.
batchSize == 2

\* maxPages of Client.FetchStocks (100 in the source), scaled down.
maxPages == 2

\* Capacity of the channel made by Client.FetchStocks (100 in the source),
\* scaled down so that the producer meets a full channel.
chanCap == 1

Calls == 1..NumCalls

\* ------------------------------------------------------------- feed items

\* Digit characters, for the %.2f rendering and for numeric text.
Digits == <<"0", "1", "2", "3", "4", "5", "6", "7", "8", "9">>

RECURSIVE NatToStr(_)
\* strconv-style decimal rendering of a natural number.
NatToStr(n) ==
    IF n < 10 THEN Digits[n + 1] ELSE NatToStr(n \div 10) \o Digits[(n % 10) + 1]

\* fmt "%.2f" of a non-negative value given in thousandths, rounding to the
\* nearest hundredth (the model's values never sit on a rounding tie).
Format2(t) ==
    LET h == (t + 5) \div 10
    IN  NatToStr(h \div 100) \o "." \o Digits[((h \div 10) % 10) + 1]
                                    \o Digits[(h % 10) + 1]

\* Value of one digit character, or -1.
DigitVal(c) ==
    IF \E d \in 1..10 : Digits[d] = c
    THEN (CHOOSE d \in 1..10 : Digits[d] = c) - 1
    ELSE -1

RECURSIVE ParseDigits(_, _)
\* Value of a sequence of digit characters read after the accumulator acc,
\* or -1 when a character is no digit.
ParseDigits(cs, acc) ==
    IF cs = <<>> THEN acc
    ELSE IF DigitVal(Head(cs)) < 0 THEN -1
    ELSE ParseDigits(Tail(cs), acc * 10 + DigitVal(Head(cs)))

\* Position of the first "." of a character sequence, or 0.
DotIndex(cs) ==
    IF \E i \in 1..Len(cs) : cs[i] = "."
    THEN CHOOSE i \in 1..Len(cs) : cs[i] = "." /\ \A j \in 1..(i - 1) : cs[j] # "."
    ELSE 0

\* strconv.ParseFloat on unsigned decimal text "ddd" or "ddd.ddd" (at most
\* three fraction digits), as thousandths; -1 is the parse error.
ParseFloatText(cs) ==
    LET dot  == DotIndex(cs)
        ip   == IF dot = 0 THEN cs ELSE SubSeq(cs, 1, dot - 1)
        fp   == IF dot = 0 THEN <<>> ELSE SubSeq(cs, dot + 1, Len(cs))
        pad  == fp \o SubSeq(<<"0", "0", "0">>, 1, 3 - Len(fp))
    IN  IF cs = <<>> \/ Len(fp) > 3 \/ (ip = <<>> /\ fp = <<>>) THEN -1
        ELSE IF ParseDigits(ip, 0) < 0 \/ ParseDigits(pad, 0) < 0 THEN -1
        ELSE ParseDigits(ip, 0) * 1000 + ParseDigits(pad, 0)

\* parseFloat: a JSON number is taken as is, numeric text is parsed, and
\* everything else (unparsable text, null, any other JSON type) is 0.
parseFloat(v) ==
    CASE v.type = "float64" -> v.val
      [] v.type = "string"  -> IF ParseFloatText(v.text) >= 0
                               THEN ParseFloatText(v.text) ELSE 0
      [] OTHER              -> 0

\* crypto/md5 followed by hex encoding, taken as collision-free: an
\* injective tagging of the hashed text.
Md5Hex(data) == "md5:" \o data

\* generateStockID with the '|' separator the source uses.
generateStockIDSep(item, targetFrom, targetTo) ==
    Md5Hex(item.Ticker \o "|" \o item.Company \o "|" \o item.Brokerage \o "|"
           \o item.Action \o "|" \o item.RatingFrom \o "|" \o item.RatingTo \o "|"
           \o Format2(targetFrom) \o "|" \o Format2(targetTo))

generateStockID(item, targetFrom, targetTo) ==
    generateStockIDSep(item, targetFrom, targetTo)

\* convertToStock: the Stock built from a feed item; CreatedAt and UpdatedAt
\* are left at the zero time.
convertToStock(item) ==
    LET targetFrom == parseFloat(item.TargetFrom)
        targetTo   == parseFloat(item.TargetTo)
    IN  [ID         |-> generateStockID(item, targetFrom, targetTo),
         Ticker     |-> item.Ticker,
         Company    |-> item.Company,
         Brokerage  |-> item.Brokerage,
         Action     |-> item.Action,
         RatingFrom |-> item.RatingFrom,
         RatingTo   |-> item.RatingTo,
         TargetFrom |-> targetFrom,
         TargetTo   |-> targetTo,
         RecommendScore |-> 0,
         CreatedAt  |-> 0,
         UpdatedAt  |-> 0]

Float(v) == [type |-> "float64", val |-> v]
Text(cs) == [type |-> "string", text |-> cs]
Null     == [type |-> "nil"]


\* The feed items the runs draw from: two items with distinct fingerprints.
ItemA ==
    [Ticker |-> "AAPL", Company |-> "Apple Inc.", Brokerage |-> "Goldman Sachs",
     Action |-> "target raised by", RatingFrom |-> "Hold", RatingTo |-> "Buy",
     TargetFrom |-> Float(100000), TargetTo |-> Float(150000)]

ItemB ==
    [Ticker |-> "MSFT", Company |-> "Microsoft Corporation", Brokerage |-> "JP Morgan",
     Action |-> "downgraded by", RatingFrom |-> "Buy", RatingTo |-> "Sell",
     TargetFrom |-> Text(<<"N", "/", "A">>), TargetTo |-> Float(50000)]

FeedItems == {ItemA, ItemB}

\* The items the upstream of the feed client serves in its pages.
PageItems == {ItemA}

\* StockOrError values carried by the channel.
StockMsg(stock) == [kind |-> "stock", stock |-> stock]
ErrorMsg        == [kind |-> "error"]

FeedMsgs == {StockMsg(convertToStock(i)) : i \in FeedItems}

\* Sequences over S of length at most n.
SeqsUpTo(S, n) == UNION {[1..k -> S] : k \in 0..n}

\* The Stocks field of the MockStocksFetcher under test.
MockStocks == <<convertToStock(ItemA), convertToStock(ItemB)>>

\* The fetcher the Service is built with: the feed client, the mock (with
\* or without its Error field set), or any other StocksFetcher, which may
\* deliver any finite stream of stocks and errors.
Fetchers ==
    {[kind |-> "client", Error |-> FALSE],
     [kind |-> "mock",   Error |-> FALSE],
     [kind |-> "mock",   Error |-> TRUE],
     [kind |-> "stream", Error |-> FALSE]}

\* ---------------------------------------------------------------- scoring

\* ratingScores of calculateRecommendScore; a label outside the table adds 0.
IngestRatingDelta(rating) ==
    CASE rating = "Buy"            -> 30
      [] rating = "Outperform"     -> 25
      [] rating = "Overweight"     -> 20
      [] rating = "Hold"           -> 0
      [] rating = "Neutral"        -> -5
      [] rating = "Market Perform" -> -10
      [] rating = "Underperform"   -> -20
      [] rating = "Underweight"    -> -20
      [] rating = "Sell"           -> -30
      [] rating = "Speculative"    -> 10
      [] OTHER                     -> 0

\* actionScores of calculateRecommendScore; an action outside the table adds 0.
IngestActionDelta(action) ==
    CASE action = "target raised by"  -> 15
      [] action = "upgraded by"       -> 20
      [] action = "initiated by"      -> 5
      [] action = "target lowered by" -> -15
      [] action = "downgraded by"     -> -20
      [] OTHER                        -> 0

\* math.Round(n / d) for d > 0: to the nearest integer, halves away from zero.
RoundDiv(n, d) ==
    LET m == IF n >= 0 THEN n ELSE -n
        q == (m \div d) + (IF 2 * (m % d) >= d THEN 1 ELSE 0)
    IN  IF n >= 0 THEN q ELSE -q

\* Variant of calculateRecommendScore: the whole percent change is added.
calculateRecommendScoreFullChange(stock) ==
    LET base == 50 + IngestRatingDelta(stock.RatingTo) + IngestActionDelta(stock.Action)
        from == stock.TargetFrom
        to   == stock.TargetTo
        den  == IF from > 0 /\ to > 0 THEN from ELSE 1
        num  == IF from > 0 /\ to > 0 THEN base * from + 100 * (to - from) ELSE base
    IN  IF num > 100 * den THEN 10000
        ELSE IF num < 0 THEN 0
        ELSE RoundDiv(100 * num, den)

\* calculateRecommendScore, in hundredths: 50 plus the rating and action
\* deltas plus half the percent change of the target when both targets are
\* positive, clamped to [0,100] and rounded to 2 decimals.
calculateRecommendScore(stock) ==
    LET base == 50 + IngestRatingDelta(stock.RatingTo) + IngestActionDelta(stock.Action)
        from == stock.TargetFrom
        to   == stock.TargetTo
        \* the unclamped score is num / den
        den  == IF from > 0 /\ to > 0 THEN from ELSE 1
        num  == IF from > 0 /\ to > 0 THEN base * from + 50 * (to - from) ELSE base
    IN  IF num > 100 * den THEN 10000
        ELSE IF num < 0 THEN 0
        ELSE RoundDiv(100 * num, den)

\* ------------------------------------------------------------- repository

\* Position of the row with the given id, or 0.
RowIndex(rows, id) ==
    IF \E i \in 1..Len(rows) : rows[i].ID = id
    THEN CHOOSE i \in 1..Len(rows) :
            rows[i].ID = id /\ \A j \in 1..(i - 1) : rows[j].ID # id
    ELSE 0

\* One record written by an upsert on the primary key: the row with the
\* record's id is replaced, a record with a new id is added.
UpsertRow(rows, r) ==
    IF RowIndex(rows, r.ID) = 0 THEN Append(rows, r)
    ELSE [rows EXCEPT ![RowIndex(rows, r.ID)] = r]

RECURSIVE UpsertAll(_, _)
\* Storage.SaveBatch when the write succeeds: every record of the batch is
\* upserted, in batch order.
UpsertAll(rows, recs) ==
    IF recs = <<>> THEN rows
    ELSE UpsertAll(UpsertRow(rows, Head(recs)), Tail(recs))

\* Storage.GetByID when the query itself succeeds.
GetByID(rows, id) ==
    IF RowIndex(rows, id) = 0
    THEN [err |-> "ErrStockNotFound"]
    ELSE [err |-> "nil", stock |-> rows[RowIndex(rows, id)]]

\* ------------------------------------------------------------------ state

VARIABLES
    syncMutex,      \* Service.syncMutex: 0 when unlocked, else the call holding it
    syncInProg,     \* Service.syncInProg
    lastSync,       \* Service.lastSync
    store,          \* the rows of the repository
    fetcher,        \* Service.fetcher
    faulty,         \* Service.storage: whether calls of the repository can fail
    pair,           \* two feed items and the ids derived for them (identity check)
    req,            \* the arguments of a call of a query, scoring or start-up function
    resp,           \* what that call returned
    clock,          \* the last value time.Now() returned
    ctxDone,        \* per call: the caller's context is cancelled
    pc,             \* per call: position in SyncStocks
    status,         \* per call: the *SyncStatus of the call
    retErr,         \* per call: the error returned ("none" until the return statement)
    batch,          \* per call: the pending batch
    totalRecords,   \* per call
    newRecords,     \* per call
    stocksChan,     \* per call: the buffered content of the channel
    chanClosed,     \* per call: the channel is closed
    prod,           \* per call: the producer goroutine of the fetcher
    getByIDCalls,   \* per call: number of GetByID calls made (history)
    saveLog,        \* per call: the SaveBatch calls made, with their outcome (history)
    recvLog,        \* per call: the items received from the channel, a stock with the
                    \* result of its GetByID lookup (history)
    storeAtStart    \* the rows of the repository when the running call set the
                    \* flag (history)

vars == <<syncMutex, syncInProg, lastSync, store, fetcher, faulty, pair, req, resp, clock,
          ctxDone, pc,
          status, retErr, batch, totalRecords, newRecords, stocksChan,
          chanClosed, prod, getByIDCalls, saveLog, recvLog, storeAtStart>>

svcVars  == <<syncMutex, syncInProg, lastSync>>
envVars  == <<fetcher, faulty, pair, req, resp>>
callVars == <<status, retErr, batch, totalRecords, newRecords>>
feedVars == <<stocksChan, chanClosed, prod>>
histVars == <<getByIDCalls, saveLog, recvLog, storeAtStart>>

\* No identity check is under way.
NoPair == [a |-> Null, b |-> Null, ids |-> <<>>]

\* No function call is under way; a call that has not returned.
NoCall == [fn |-> "none"]

NilStatus ==
    [Status |-> "nil", LastSync |-> 0, TotalRecords |-> 0, NewRecords |-> 0,
     UpdatedRecords |-> 0]

NoProducer == [pc |-> "none", pageCount |-> 0, items |-> <<>>, more |-> FALSE,
               sent |-> 0, cap |-> 0, fetched |-> 0]

\* NewService: no sync in progress, zero lastSync; the repository is empty.
Init ==
    /\ syncMutex = 0
    /\ syncInProg = FALSE
    /\ lastSync = 0
    /\ store = <<>>
    /\ fetcher \in Fetchers
    /\ faulty \in BOOLEAN
    /\ pair = NoPair
    /\ req = NoCall
    /\ resp = NoCall
    /\ clock = 0
    /\ ctxDone = [p \in Calls |-> FALSE]
    /\ pc = [p \in Calls |-> "lock"]
    /\ status = [p \in Calls |-> NilStatus]
    /\ retErr = [p \in Calls |-> "none"]
    /\ batch = [p \in Calls |-> <<>>]
    /\ totalRecords = [p \in Calls |-> 0]
    /\ newRecords = [p \in Calls |-> 0]
    /\ stocksChan = [p \in Calls |-> <<>>]
    /\ chanClosed = [p \in Calls |-> FALSE]
    /\ prod = [p \in Calls |-> NoProducer]
    /\ getByIDCalls = [p \in Calls |-> 0]
    /\ saveLog = [p \in Calls |-> <<>>]
    /\ recvLog = [p \in Calls |-> <<>>]
    /\ storeAtStart = <<>>


\* ------------------------------------------------- SyncStocks: the guard

\* Variant of LockFree: the lock excludes nobody.
LockFreeAlways(p) == TRUE

\* sync.Mutex.Lock returns only when no call holds the mutex.
LockFree(p) == syncMutex = 0

\* s.syncMutex.Lock() at the entry of SyncStocks.
Lock(p) ==
    /\ pc[p] = "lock"
    /\ LockFree(p)
    /\ syncMutex' = p
    /\ pc' = [pc EXCEPT ![p] = "check"]
    /\ UNCHANGED <<syncInProg, lastSync, store, envVars, clock, ctxDone>>
    /\ UNCHANGED <<callVars, feedVars, histVars>>

\* if s.syncInProg, read under the mutex.
Check(p) ==
    /\ pc[p] = "check"
    /\ pc' = [pc EXCEPT ![p] = IF syncInProg THEN "reject" ELSE "set"]
    /\ UNCHANGED <<svcVars, store, envVars, clock, ctxDone>>
    /\ UNCHANGED <<callVars, feedVars, histVars>>

\* Variant of Reject: the call unlocks and goes back to wait for the
\* running invocation instead of returning.
RejectAndWait(p) ==
    /\ pc[p] = "reject"
    /\ syncMutex' = 0
    /\ pc' = [pc EXCEPT ![p] = "lock"]
    /\ UNCHANGED <<syncInProg, lastSync, store, envVars, clock, ctxDone>>
    /\ UNCHANGED <<callVars, feedVars, histVars>>

\* Variant of Reject: the rejected call clears the flag on its way out, as
\* it would with the deferred release registered before the check.
RejectClearsFlag(p) ==
    /\ pc[p] = "reject"
    /\ syncMutex' = 0
    /\ syncInProg' = FALSE
    /\ retErr' = [retErr EXCEPT ![p] = "ErrSyncInProgress"]
    /\ pc' = [pc EXCEPT ![p] = "returned"]
    /\ UNCHANGED <<lastSync, store, envVars, clock, ctxDone>>
    /\ UNCHANGED <<status, batch, totalRecords, newRecords, feedVars, histVars>>

\* The flag was found set: unlock and return (nil, ErrSyncInProgress).
Reject(p) ==
    /\ pc[p] = "reject"
    /\ syncMutex' = 0
    /\ retErr' = [retErr EXCEPT ![p] = "ErrSyncInProgress"]
    /\ pc' = [pc EXCEPT ![p] = "returned"]
    /\ UNCHANGED <<syncInProg, lastSync, store, envVars, clock, ctxDone>>
    /\ UNCHANGED <<status, batch, totalRecords, newRecords, feedVars, histVars>>

\* s.syncInProg = true, under the mutex.
SetFlag(p) ==
    /\ pc[p] = "set"
    /\ syncInProg' = TRUE
    /\ pc' = [pc EXCEPT ![p] = "unlock"]
    /\ storeAtStart' = store
    /\ UNCHANGED <<syncMutex, lastSync, store, envVars, clock, ctxDone>>
    /\ UNCHANGED <<callVars, feedVars, getByIDCalls, saveLog, recvLog>>

\* s.syncMutex.Unlock(), the deferred release is registered and the status
\* object is made with Status "in_progress".
Unlock(p) ==
    /\ pc[p] = "unlock"
    /\ syncMutex' = 0
    /\ status' = [status EXCEPT ![p] = [NilStatus EXCEPT !.Status = "in_progress"]]
    /\ pc' = [pc EXCEPT ![p] = "fetch"]
    /\ UNCHANGED <<syncInProg, lastSync, store, envVars, clock, ctxDone>>
    /\ UNCHANGED <<retErr, batch, totalRecords, newRecords, feedVars, histVars>>

\* Variant of AfterReturn: the call returns without running the release.
AfterReturnNoRelease == "returned"

\* Where a return statement of SyncStocks placed after the defer goes: the
\* deferred function runs before the call returns.
AfterReturn == "defer_lock"

\* The deferred function: Lock.
DeferLock(p) ==
    /\ pc[p] = "defer_lock"
    /\ LockFree(p)
    /\ syncMutex' = p
    /\ pc' = [pc EXCEPT ![p] = "defer_clear"]
    /\ UNCHANGED <<syncInProg, lastSync, store, envVars, clock, ctxDone>>
    /\ UNCHANGED <<callVars, feedVars, histVars>>

\* The deferred function: s.syncInProg = false.
DeferClear(p) ==
    /\ pc[p] = "defer_clear"
    /\ syncInProg' = FALSE
    /\ pc' = [pc EXCEPT ![p] = "defer_unlock"]
    /\ UNCHANGED <<syncMutex, lastSync, store, envVars, clock, ctxDone>>
    /\ UNCHANGED <<callVars, feedVars, histVars>>

\* The deferred function: Unlock; SyncStocks has returned, and the locals
\* of the call (with the history kept about it) are gone. The caller holds
\* the summary and the error.
DeferUnlock(p) ==
    /\ pc[p] = "defer_unlock"
    /\ syncMutex' = 0
    /\ pc' = [pc EXCEPT ![p] = "returned"]
    /\ batch' = [batch EXCEPT ![p] = <<>>]
    /\ totalRecords' = [totalRecords EXCEPT ![p] = 0]
    /\ newRecords' = [newRecords EXCEPT ![p] = 0]
    /\ prod' = [prod EXCEPT ![p] = NoProducer]
    /\ chanClosed' = [chanClosed EXCEPT ![p] = FALSE]
    /\ ctxDone' = [ctxDone EXCEPT ![p] = FALSE]
    /\ getByIDCalls' = [getByIDCalls EXCEPT ![p] = 0]
    /\ saveLog' = [saveLog EXCEPT ![p] = <<>>]
    /\ recvLog' = [recvLog EXCEPT ![p] = <<>>]
    /\ storeAtStart' = <<>>
    /\ UNCHANGED <<syncInProg, lastSync, store, envVars, clock>>
    /\ UNCHANGED <<status, retErr, stocksChan>>

\* The caller's context is cancelled while the call's producer is running
\* (only the producers of the client and of the mock watch the context).
Cancel(p) ==
    /\ prod[p].pc \in {"loop", "send", "page_error", "mock"}
    /\ ~ctxDone[p]
    /\ ctxDone' = [ctxDone EXCEPT ![p] = TRUE]
    /\ UNCHANGED <<svcVars, store, envVars, clock, pc>>
    /\ UNCHANGED <<callVars, feedVars, histVars>>

\* ------------------------------------------------ SyncStocks: the fetch

\* Variant of FetchFails: the status is set but the return is missing, and
\* the call goes on to finish the run.
FetchFailsNoReturn(p) ==
    /\ pc[p] = "fetch"
    /\ fetcher.kind = "mock" /\ fetcher.Error
    /\ status' = [status EXCEPT ![p].Status = "error"]
    /\ pc' = [pc EXCEPT ![p] = "finish"]
    /\ UNCHANGED <<svcVars, store, envVars, clock, ctxDone>>
    /\ UNCHANGED <<retErr, batch, totalRecords, newRecords, feedVars, histVars>>

\* s.fetcher.FetchStocks(ctx) returns an error: MockStocksFetcher with its
\* Error field set. Status becomes "error" and the error is returned.
FetchFails(p) ==
    /\ pc[p] = "fetch"
    /\ fetcher.kind = "mock" /\ fetcher.Error
    /\ status' = [status EXCEPT ![p].Status = "error"]
    /\ retErr' = [retErr EXCEPT ![p] = "FetchError"]
    /\ pc' = [pc EXCEPT ![p] = AfterReturn]
    /\ UNCHANGED <<svcVars, store, envVars, clock, ctxDone>>
    /\ UNCHANGED <<batch, totalRecords, newRecords, feedVars, histVars>>

\* The producer goroutine each fetcher starts, and the capacity of the
\* channel it makes.
StartProducer ==
    CASE fetcher.kind = "client" -> [NoProducer EXCEPT !.pc = "loop", !.cap = chanCap]
      [] fetcher.kind = "mock"   -> [NoProducer EXCEPT !.pc = "mock", !.items = MockStocks,
                                                        !.cap = Len(MockStocks)]
      [] OTHER                   -> [NoProducer EXCEPT !.pc = "stream", !.cap = 0]

\* s.fetcher.FetchStocks(ctx) returns a channel and a nil error.
FetchStarts(p) ==
    /\ pc[p] = "fetch"
    /\ ~(fetcher.kind = "mock" /\ fetcher.Error)
    /\ prod' = [prod EXCEPT ![p] = StartProducer]
    /\ pc' = [pc EXCEPT ![p] = "range"]
    /\ UNCHANGED <<svcVars, store, envVars, clock, ctxDone>>
    /\ UNCHANGED <<callVars, stocksChan, chanClosed, histVars>>

\* ------------------------------------------------- the feed producers

\* A send on the channel can complete: the buffer has room, or, on an
\* unbuffered channel, the receiver is waiting in the range loop.
HasRoom(p) ==
    \/ Len(stocksChan[p]) < prod[p].cap
    \/ prod[p].cap = 0 /\ stocksChan[p] = <<>> /\ pc[p] = "range"

Send(p, msg) == stocksChan' = [stocksChan EXCEPT ![p] = Append(@, msg)]

ProdFrame == UNCHANGED <<svcVars, store, envVars, clock, ctxDone, pc, callVars, histVars>>

\* Client.FetchStocks, top of the loop with the context cancelled: the
\* context error is sent and the goroutine returns, closing the channel.
ClientCancelled(p) ==
    /\ prod[p].pc = "loop"
    /\ prod[p].pageCount < maxPages
    /\ ctxDone[p]
    /\ HasRoom(p)
    /\ Send(p, ErrorMsg)
    /\ chanClosed' = [chanClosed EXCEPT ![p] = TRUE]
    /\ prod' = [prod EXCEPT ![p].pc = "cancelled"]
    /\ ProdFrame

\* Variant of ClientFetchPage: the loop condition is pageCount <= maxPages.
ClientFetchPageOneMore(p) ==
    /\ prod[p].pc = "loop"
    /\ prod[p].pageCount <= maxPages
    /\ ~ctxDone[p]
    /\ \/ \E items \in SeqsUpTo(PageItems, MaxStream - prod[p].sent), more \in BOOLEAN :
            prod' = [prod EXCEPT ![p].pc = "send", ![p].items = items, ![p].more = more,
                                 ![p].fetched = @ + 1]
       \/ prod' = [prod EXCEPT ![p].pc = "page_error", ![p].fetched = @ + 1]
    /\ UNCHANGED <<stocksChan, chanClosed>>
    /\ ProdFrame

\* Client.FetchStocks: c.fetchPage returns a page of items and its
\* next_page cursor, or fails (fetched counts the calls of c.fetchPage).
ClientFetchPage(p) ==
    /\ prod[p].pc = "loop"
    /\ prod[p].pageCount < maxPages
    /\ ~ctxDone[p]
    /\ \/ \E items \in SeqsUpTo(PageItems, MaxStream - prod[p].sent), more \in BOOLEAN :
            prod' = [prod EXCEPT ![p].pc = "send", ![p].items = items, ![p].more = more,
                                 ![p].fetched = @ + 1]
       \/ prod' = [prod EXCEPT ![p].pc = "page_error", ![p].fetched = @ + 1]
    /\ UNCHANGED <<stocksChan, chanClosed>>
    /\ ProdFrame

\* Client.FetchStocks: the error of a failed page fetch is sent and the
\* goroutine returns, closing the channel.
ClientPageError(p) ==
    /\ prod[p].pc = "page_error"
    /\ HasRoom(p)
    /\ Send(p, ErrorMsg)
    /\ chanClosed' = [chanClosed EXCEPT ![p] = TRUE]
    /\ prod' = [prod EXCEPT ![p].pc = "failed"]
    /\ ProdFrame

\* Client.FetchStocks: the next item of the page is converted and sent.
ClientSend(p) ==
    /\ prod[p].pc = "send"
    /\ prod[p].items # <<>>
    /\ HasRoom(p)
    /\ Send(p, StockMsg(convertToStock(Head(prod[p].items))))
    /\ prod' = [prod EXCEPT ![p].items = Tail(@), ![p].sent = @ + 1]
    /\ UNCHANGED chanClosed
    /\ ProdFrame

\* Variant of ClientPageDone: after a page with an empty next_page the
\* goroutine ends without closing the channel.
ClientPageDoneNoClose(p) ==
    /\ prod[p].pc = "send"
    /\ prod[p].items = <<>>
    /\ IF prod[p].more
       THEN prod' = [prod EXCEPT ![p].pc = "loop", ![p].pageCount = @ + 1]
       ELSE prod' = [prod EXCEPT ![p].pc = "done"]
    /\ UNCHANGED <<stocksChan, chanClosed>>
    /\ ProdFrame

\* Client.FetchStocks: the page is sent; with an empty next_page the loop
\* is left and the channel closed, else the next page is counted.
ClientPageDone(p) ==
    /\ prod[p].pc = "send"
    /\ prod[p].items = <<>>
    /\ IF prod[p].more
       THEN /\ prod' = [prod EXCEPT ![p].pc = "loop", ![p].pageCount = @ + 1]
            /\ UNCHANGED chanClosed
       ELSE /\ prod' = [prod EXCEPT ![p].pc = "done"]
            /\ chanClosed' = [chanClosed EXCEPT ![p] = TRUE]
    /\ UNCHANGED stocksChan
    /\ ProdFrame

\* Client.FetchStocks: pageCount reached maxPages; the channel is closed.
ClientMaxPages(p) ==
    /\ prod[p].pc = "loop"
    /\ prod[p].pageCount >= maxPages
    /\ prod' = [prod EXCEPT ![p].pc = "done"]
    /\ chanClosed' = [chanClosed EXCEPT ![p] = TRUE]
    /\ UNCHANGED stocksChan
    /\ ProdFrame

\* MockStocksFetcher.FetchStocks: the select sends the next stock.
MockSend(p) ==
    /\ prod[p].pc = "mock"
    /\ prod[p].items # <<>>
    /\ HasRoom(p)
    /\ Send(p, StockMsg(Head(prod[p].items)))
    /\ prod' = [prod EXCEPT ![p].items = Tail(@), ![p].sent = @ + 1]
    /\ UNCHANGED chanClosed
    /\ ProdFrame

\* MockStocksFetcher.FetchStocks: the select takes ctx.Done(); the context
\* error is sent and the channel closed.
MockCancelled(p) ==
    /\ prod[p].pc = "mock"
    /\ prod[p].items # <<>>
    /\ ctxDone[p]
    /\ HasRoom(p)
    /\ Send(p, ErrorMsg)
    /\ chanClosed' = [chanClosed EXCEPT ![p] = TRUE]
    /\ prod' = [prod EXCEPT ![p].pc = "cancelled"]
    /\ ProdFrame

\* MockStocksFetcher.FetchStocks: every stock is sent; the channel is closed.
MockDone(p) ==
    /\ prod[p].pc = "mock"
    /\ prod[p].items = <<>>
    /\ prod' = [prod EXCEPT ![p].pc = "done"]
    /\ chanClosed' = [chanClosed EXCEPT ![p] = TRUE]
    /\ UNCHANGED stocksChan
    /\ ProdFrame

\* Any StocksFetcher: the producer sends a stock or an error.
StreamSend(p) ==
    /\ prod[p].pc = "stream"
    /\ prod[p].sent < MaxStream
    /\ HasRoom(p)
    /\ \E msg \in FeedMsgs \cup {ErrorMsg} : Send(p, msg)
    /\ prod' = [prod EXCEPT ![p].sent = @ + 1]
    /\ UNCHANGED chanClosed
    /\ ProdFrame

\* Any StocksFetcher: the producer closes the channel.
StreamClose(p) ==
    /\ prod[p].pc = "stream"
    /\ prod' = [prod EXCEPT ![p].pc = "done"]
    /\ chanClosed' = [chanClosed EXCEPT ![p] = TRUE]
    /\ UNCHANGED stocksChan
    /\ ProdFrame


\* ---------------------------------------------- SyncStocks: the consumer

\* The result of s.storage.GetByID: a storage error when the query fails,
\* else the row or ErrStockNotFound.
LookupResults(id) ==
    {GetByID(store, id)} \cup (IF faulty THEN {[err |-> "StorageError"]} ELSE {})

\* Variant of PrepareStock: CreatedAt is stamped on every record, found or
\* not.
PrepareStockStamped(stock, res, t) ==
    [stock EXCEPT !.RecommendScore = calculateRecommendScore(stock),
                  !.UpdatedAt = t + 1, !.CreatedAt = t + 1]

\* The record SyncStocks adds to the batch for a received stock, given the
\* GetByID result and the clock t before the reads: the score and UpdatedAt
\* are set first; CreatedAt is a second clock read when the id is not
\* found, the stored CreatedAt when it is found, and is left as received
\* when the lookup failed.
PrepareStock(stock, res, t) ==
    LET s1 == [stock EXCEPT !.RecommendScore = calculateRecommendScore(stock),
                            !.UpdatedAt = t + 1]
    IN  CASE res.err = "ErrStockNotFound" -> [s1 EXCEPT !.CreatedAt = t + 2]
          [] res.err = "nil"              -> [s1 EXCEPT !.CreatedAt = res.stock.CreatedAt]
          [] OTHER                        -> s1

\* Number of time.Now() reads PrepareStock makes.
ClockReads(res) == IF res.err = "ErrStockNotFound" THEN 2 ELSE 1

\* Variant of AfterAppend: the flush waits for one record more.
AfterAppendLate(b) == IF Len(b) > batchSize THEN "flush" ELSE "range"

\* Position after a record is added: the batch is flushed once it holds
\* batchSize records.
AfterAppend(b) == IF Len(b) >= batchSize THEN "flush" ELSE "range"

\* Variant of RecvError: the error item ends the run with status "error".
RecvErrorAborts(p) ==
    /\ pc[p] = "range"
    /\ stocksChan[p] # <<>>
    /\ Head(stocksChan[p]).kind = "error"
    /\ stocksChan' = [stocksChan EXCEPT ![p] = Tail(@)]
    /\ recvLog' = [recvLog EXCEPT ![p] = Append(@, Head(stocksChan[p]))]
    /\ status' = [status EXCEPT ![p].Status = "error"]
    /\ retErr' = [retErr EXCEPT ![p] = "FetchError"]
    /\ pc' = [pc EXCEPT ![p] = AfterReturn]
    /\ UNCHANGED <<svcVars, store, envVars, clock, ctxDone>>
    /\ UNCHANGED <<batch, totalRecords, newRecords, chanClosed, prod, getByIDCalls, saveLog, storeAtStart>>

\* The range loop receives an error item: it is logged and the loop continues.
RecvError(p) ==
    /\ pc[p] = "range"
    /\ stocksChan[p] # <<>>
    /\ Head(stocksChan[p]).kind = "error"
    /\ stocksChan' = [stocksChan EXCEPT ![p] = Tail(@)]
    /\ recvLog' = [recvLog EXCEPT ![p] = Append(@, Head(stocksChan[p]))]
    /\ UNCHANGED <<svcVars, store, envVars, clock, ctxDone, pc>>
    /\ UNCHANGED <<callVars, chanClosed, prod, getByIDCalls, saveLog, storeAtStart>>

\* The range loop receives a stock: score, timestamps, lookup, append.
RecvStock(p) ==
    /\ pc[p] = "range"
    /\ stocksChan[p] # <<>>
    /\ Head(stocksChan[p]).kind = "stock"
    /\ \E res \in LookupResults(Head(stocksChan[p]).stock.ID) :
          LET rec == PrepareStock(Head(stocksChan[p]).stock, res, clock)
          IN  /\ batch' = [batch EXCEPT ![p] = Append(@, rec)]
              /\ clock' = clock + ClockReads(res)
              /\ newRecords' = [newRecords EXCEPT ![p] =
                                   IF res.err = "ErrStockNotFound" THEN @ + 1 ELSE @]
              /\ pc' = [pc EXCEPT ![p] = AfterAppend(Append(batch[p], rec))]
              /\ recvLog' = [recvLog EXCEPT ![p] =
                                Append(@, [kind   |-> "stock",
                                           stock  |-> Head(stocksChan[p]).stock,
                                           lookup |-> res.err])]
    /\ totalRecords' = [totalRecords EXCEPT ![p] = @ + 1]
    /\ stocksChan' = [stocksChan EXCEPT ![p] = Tail(@)]
    /\ getByIDCalls' = [getByIDCalls EXCEPT ![p] = @ + 1]
    /\ UNCHANGED <<svcVars, store, envVars, ctxDone>>
    /\ UNCHANGED <<status, retErr, chanClosed, prod, saveLog, storeAtStart>>

\* The outcomes of a write: success, and failure when the repository can fail.
SaveOutcomes == IF faulty THEN BOOLEAN ELSE {TRUE}

\* s.storage.SaveBatch(ctx, batch): the rows after the call.
SaveBatch(rows, recs, ok) == IF ok THEN UpsertAll(rows, recs) ELSE rows

\* Variant of AfterFlush: the batch is not emptied.
AfterFlushKeep(b) == b

\* Variant of AfterFlush: the last record written stays in the batch.
AfterFlushKeepLast(b) == <<b[Len(b)]>>

\* The batch the loop goes on with after a flush: batch[:0].
AfterFlush(b) == <<>>

\* The flush inside the loop: SaveBatch succeeds or fails (logged), and the
\* batch is emptied either way.
Flush(p) ==
    /\ pc[p] = "flush"
    /\ \E ok \in SaveOutcomes :
          /\ store' = SaveBatch(store, batch[p], ok)
          /\ saveLog' = [saveLog EXCEPT ![p] = Append(@, [recs |-> batch[p], ok |-> ok])]
    /\ batch' = [batch EXCEPT ![p] = AfterFlush(@)]
    /\ pc' = [pc EXCEPT ![p] = "range"]
    /\ UNCHANGED <<svcVars, envVars, clock, ctxDone>>
    /\ UNCHANGED <<status, retErr, totalRecords, newRecords, feedVars, getByIDCalls, recvLog, storeAtStart>>

\* The channel is closed and drained: the range loop ends.
LoopEnd(p) ==
    /\ pc[p] = "range"
    /\ stocksChan[p] = <<>>
    /\ chanClosed[p]
    /\ pc' = [pc EXCEPT ![p] = "final"]
    /\ UNCHANGED <<svcVars, store, envVars, clock, ctxDone>>
    /\ UNCHANGED <<callVars, feedVars, histVars>>

\* After the loop: a non-empty batch is written (a failure is logged).
FinalFlush(p) ==
    /\ pc[p] = "final"
    /\ IF Len(batch[p]) > 0
       THEN \E ok \in SaveOutcomes :
               /\ store' = SaveBatch(store, batch[p], ok)
               /\ saveLog' = [saveLog EXCEPT ![p] = Append(@, [recs |-> batch[p], ok |-> ok])]
       ELSE UNCHANGED <<store, saveLog>>
    /\ pc' = [pc EXCEPT ![p] = "finish"]
    /\ UNCHANGED <<svcVars, envVars, clock, ctxDone>>
    /\ UNCHANGED <<callVars, feedVars, getByIDCalls, recvLog, storeAtStart>>

\* The summary of a run that reached the end of SyncStocks.
Summary(p, t) ==
    [Status         |-> "completed",
     LastSync       |-> t,
     TotalRecords   |-> totalRecords[p],
     NewRecords     |-> newRecords[p],
     UpdatedRecords |-> totalRecords[p] - newRecords[p]]

\* s.lastSync = time.Now(), the summary is filled in and returned with a
\* nil error.
Finish(p) ==
    /\ pc[p] = "finish"
    /\ clock' = clock + 1
    /\ lastSync' = clock + 1
    /\ status' = [status EXCEPT ![p] = Summary(p, clock + 1)]
    /\ retErr' = [retErr EXCEPT ![p] = "nil"]
    /\ pc' = [pc EXCEPT ![p] = AfterReturn]
    /\ UNCHANGED <<syncMutex, syncInProg, store, envVars, ctxDone>>
    /\ UNCHANGED <<batch, totalRecords, newRecords, feedVars, histVars>>

\* ------------------------------------------------------- specification

Next ==
    \E p \in Calls :
        \/ Lock(p)
        \/ Check(p)
        \/ Reject(p)
        \/ SetFlag(p)
        \/ Unlock(p)
        \/ Cancel(p)
        \/ FetchFails(p)
        \/ FetchStarts(p)
        \/ ClientCancelled(p)
        \/ ClientFetchPage(p)
        \/ ClientPageError(p)
        \/ ClientSend(p)
        \/ ClientPageDone(p)
        \/ ClientMaxPages(p)
        \/ MockSend(p)
        \/ MockCancelled(p)
        \/ MockDone(p)
        \/ StreamSend(p)
        \/ StreamClose(p)
        \/ RecvError(p)
        \/ RecvStock(p)
        \/ Flush(p)
        \/ LoopEnd(p)
        \/ FinalFlush(p)
        \/ Finish(p)
        \/ DeferLock(p)
        \/ DeferClear(p)
        \/ DeferUnlock(p)

Spec == Init /\ [][Next]_vars


\* ------------------------------------------------- identity derivation

\* The feed items of the identity check: every text field takes two values
\* (ticker and company with and without the '|' character), target_from
\* three numbers of which two agree to 2 decimals, target_to a number and
\* the text of the same number.
IDItems ==
    [Ticker     : {"A", "A|B"},
     Company    : {"B", "B|B"},
     Brokerage  : {"GS", "MS"},
     Action     : {"upgraded by", "downgraded by"},
     RatingFrom : {"Hold", "Buy"},
     RatingTo   : {"Buy", "Sell"},
     TargetFrom : {Float(1000), Float(1004), Float(1010)},
     TargetTo   : {Float(2000), Text(<<"2", ".", "0", "0">>)}]

\* Two feed items are drawn; no sync is under way.
IDInit ==
    /\ syncMutex = 0
    /\ syncInProg = FALSE
    /\ lastSync = 0
    /\ store = <<>>
    /\ fetcher = [kind |-> "stream", Error |-> FALSE]
    /\ faulty = FALSE
    /\ pair \in [a : IDItems, b : IDItems, ids : {<<>>}]
    /\ req = NoCall
    /\ resp = NoCall
    /\ clock = 0
    /\ ctxDone = [p \in Calls |-> FALSE]
    /\ pc = [p \in Calls |-> "lock"]
    /\ status = [p \in Calls |-> NilStatus]
    /\ retErr = [p \in Calls |-> "none"]
    /\ batch = [p \in Calls |-> <<>>]
    /\ totalRecords = [p \in Calls |-> 0]
    /\ newRecords = [p \in Calls |-> 0]
    /\ stocksChan = [p \in Calls |-> <<>>]
    /\ chanClosed = [p \in Calls |-> FALSE]
    /\ prod = [p \in Calls |-> NoProducer]
    /\ getByIDCalls = [p \in Calls |-> 0]
    /\ saveLog = [p \in Calls |-> <<>>]
    /\ recvLog = [p \in Calls |-> <<>>]
    /\ storeAtStart = <<>>

\* convertToStock is applied to both items and the ids are kept.
Derive ==
    /\ pair.ids = <<>>
    /\ pair' = [pair EXCEPT !.ids = <<convertToStock(pair.a).ID, convertToStock(pair.b).ID>>]
    /\ UNCHANGED <<svcVars, store, fetcher, faulty, req, resp, clock, ctxDone, pc>>
    /\ UNCHANGED <<callVars, feedVars, histVars>>

IDNext == Derive

SpecID == IDInit /\ [][IDNext]_vars

\* Fairness for the guard alone: a call that holds the mutex at the entry of
\* SyncStocks goes on to its check and, when rejected, to its return. No
\* step of a running invocation or of a producer is ever required.
FairSpec == Spec /\ \A p \in Calls : WF_vars(Check(p) \/ Reject(p))

\* ------------------------------------------- runs fed by the client

\* The service is built on the client.
ClientInit == Init /\ fetcher.kind = "client"

\* A step of the goroutine that called SyncStocks.
ConsumerStep(p) ==
    \/ Lock(p)
    \/ Check(p)
    \/ Reject(p)
    \/ SetFlag(p)
    \/ Unlock(p)
    \/ FetchStarts(p)
    \/ RecvError(p)
    \/ RecvStock(p)
    \/ Flush(p)
    \/ LoopEnd(p)
    \/ FinalFlush(p)
    \/ Finish(p)
    \/ DeferLock(p)
    \/ DeferClear(p)
    \/ DeferUnlock(p)

\* A step of the goroutine Client.FetchStocks starts.
ProducerStep(p) ==
    \/ ClientCancelled(p)
    \/ ClientFetchPage(p)
    \/ ClientPageError(p)
    \/ ClientSend(p)
    \/ ClientPageDone(p)
    \/ ClientMaxPages(p)

ClientNext == \E p \in Calls : ConsumerStep(p) \/ ProducerStep(p) \/ Cancel(p)

\* The Go scheduler runs every goroutine that can take a step: a caller of
\* SyncStocks and the producer of its run each go on while they are able
\* to; cancelling the context is up to the caller's environment.
SpecClient ==
    /\ ClientInit
    /\ [][ClientNext]_vars
    /\ \A p \in Calls : WF_vars(ConsumerStep(p)) /\ WF_vars(ProducerStep(p))

\* ------------------------------------------------------------ properties

\* A call is past the in-progress check: from the moment it found the flag
\* clear until its deferred release is done.
Running == {"set", "unlock", "fetch", "range", "flush", "final", "finish",
            "defer_lock", "defer_clear", "defer_unlock"}

\* A call holds the in-progress flag: it set the flag and has not cleared it.
Holding == {"unlock", "fetch", "range", "flush", "final", "finish",
            "defer_lock", "defer_clear"}

\* The call has executed a return statement of SyncStocks after acquiring
\* the flag (its deferred release may still be running).
Ran(p) == retErr[p] \in {"nil", "FetchError"}

Rejected(p) == retErr[p] = "ErrSyncInProgress"

\* C1: at every moment at most one SyncStocks invocation is past the
\* in-progress check; an invocation is rejected only while another one
\* holds the flag, and of the invocations made at least one acquires the
\* flag: two racing invocations end with one running and one rejected.
C1_SingleFlight ==
    /\ Cardinality({p \in Calls : pc[p] \in Running}) <= 1
    /\ \A p \in Calls : pc[p] = "reject" => \E q \in Calls \ {p} : pc[q] \in Holding
    /\ (\A p \in Calls : pc[p] = "returned") => \E p \in Calls : ~Rejected(p)

\* One invocation is in its range loop while the other one, having raced
\* it, is being rejected.
C1_Witness ==
    \E p, q \in Calls : p # q /\ pc[p] = "reject" /\ pc[q] = "range"

\* C2: an invocation that finds the in-progress flag set returns
\* ErrSyncInProgress with no summary, whatever the running invocation does
\* (no step of the running invocation is needed for it), and once it has
\* returned it never runs.
C2_FailFast ==
    /\ \A p \in Calls :
          (pc[p] = "check" /\ syncInProg)
              ~> (pc[p] = "returned" /\ Rejected(p) /\ status[p] = NilStatus)
    /\ [][\A p \in Calls : (pc[p] = "returned" /\ Rejected(p)) =>
             (pc'[p] = "returned" /\ Rejected(p)' /\ status'[p] = NilStatus)]_vars

\* An invocation has been rejected while the running one is still blocked
\* on its open, empty channel.
C2_Witness ==
    \E p, q \in Calls :
        /\ p # q
        /\ pc[p] = "returned" /\ Rejected(p) /\ status[p] = NilStatus
        /\ pc[q] = "range" /\ stocksChan[q] = <<>> /\ ~chanClosed[q]

\* C3: an invocation that acquired the flag and returned has released it:
\* the flag is set only while some invocation holds it, so an invocation
\* made after the return is not rejected on account of the returned one.
C3_Released ==
    /\ syncInProg => \E q \in Calls : pc[q] \in Holding
    /\ \A p \in Calls : (pc[p] = "returned" /\ Ran(p)) =>
          (syncInProg => \E q \in Calls \ {p} : pc[q] \in Holding)

\* One invocation returned a fetch error (or completed) and another one,
\* made later, acquired the flag and completed.
C3_Witness ==
    \E p, q \in Calls :
        /\ p # q
        /\ pc[p] = "returned" /\ Ran(p)
        /\ pc[q] = "returned" /\ retErr[q] = "nil" /\ status[q].Status = "completed"
        /\ status[p].LastSync < status[q].LastSync
        /\ ~syncInProg


\* The positions of the rows with the given id.
RowsWithID(rows, id) == {i \in DOMAIN rows : rows[i].ID = id}

\* The step is a SaveBatch call of call p that writes a record with the id.
Writes(p, id) ==
    /\ pc[p] \in {"flush", "final"}
    /\ pc'[p] # pc[p]
    /\ store' # store
    /\ \E k \in DOMAIN batch[p] : batch[p][k].ID = id

\* C4: with a repository that upserts by id and whose calls succeed, a
\* record ingested again (in a later run, or later in the same run) leaves
\* exactly one stored row for its id, with the created_at it was first
\* stored with and a later updated_at; no step leaves two rows with one id.
C4_IdempotentReingest ==
    [][~faulty =>
         /\ \A i, j \in DOMAIN store' : store'[i].ID = store'[j].ID => i = j
         /\ \A i \in DOMAIN store :
               /\ Cardinality(RowsWithID(store', store[i].ID)) = 1
               /\ \A j \in RowsWithID(store', store[i].ID) :
                     /\ store'[j].CreatedAt = store[i].CreatedAt
                     /\ store'[j].UpdatedAt >= store[i].UpdatedAt
                     /\ (\E p \in Calls : Writes(p, store[i].ID))
                            => store'[j].UpdatedAt > store[i].UpdatedAt]_vars

\* Two completed runs, one after the other, each fed the same single
\* record: the first stored it as new, the second as an update; the one row
\* was created during the first run and last updated during the second.
C4_Witness ==
    \E p, q \in Calls :
        /\ ~faulty
        /\ pc[p] = "returned" /\ status[p].Status = "completed"
        /\ pc[q] = "returned" /\ status[q].Status = "completed"
        /\ status[p].TotalRecords = 1 /\ status[p].NewRecords = 1
        /\ status[q].TotalRecords = 1 /\ status[q].NewRecords = 0
        /\ Len(store) = 1
        /\ store[1].CreatedAt < status[p].LastSync
        /\ status[p].LastSync < store[1].UpdatedAt
        /\ store[1].UpdatedAt < status[q].LastSync

\* C5: once a record with a given id is stored, no later step changes the
\* created_at of its row, whatever the lookups and the batch writes return.
C5_CreatedAtKept ==
    [][\A i \in DOMAIN store : \A j \in DOMAIN store' :
          store'[j].ID = store[i].ID => store'[j].CreatedAt = store[i].CreatedAt]_vars


\* The value "%.2f" shows for a target, in hundredths.
Round2(t) == (t + 5) \div 10

\* Two feed items have the same content: equal text fields and targets
\* that agree to 2 decimals.
SameContent(a, b) ==
    /\ a.Ticker = b.Ticker
    /\ a.Company = b.Company
    /\ a.Brokerage = b.Brokerage
    /\ a.Action = b.Action
    /\ a.RatingFrom = b.RatingFrom
    /\ a.RatingTo = b.RatingTo
    /\ Round2(parseFloat(a.TargetFrom)) = Round2(parseFloat(b.TargetFrom))
    /\ Round2(parseFloat(a.TargetTo)) = Round2(parseFloat(b.TargetTo))

\* C6: the derived id is a content fingerprint: two feed items get the same
\* id exactly when they have the same content, also for field values that
\* contain the '|' delimiter.
C6_Fingerprint ==
    pair.ids # <<>> => (SameContent(pair.a, pair.b) <=> pair.ids[1] = pair.ids[2])

\* A call is past its FetchStocks call.
PastFetch(p) ==
    \/ pc[p] \in {"range", "flush", "final", "finish",
                  "defer_lock", "defer_clear", "defer_unlock"}
    \/ pc[p] = "returned" /\ ~Rejected(p)

\* C7: with a fetcher whose FetchStocks call returns an error, every
\* SyncStocks call that gets to it returns that error with a summary whose
\* status is "error", no GetByID or SaveBatch call is ever made, and
\* lastSync is never updated.
C7_FetchError ==
    fetcher.Error =>
        /\ lastSync = 0
        /\ store = <<>>
        /\ \A p \in Calls :
              /\ getByIDCalls[p] = 0
              /\ saveLog[p] = <<>>
              /\ PastFetch(p) => /\ retErr[p] = "FetchError"
                                 /\ status[p].Status = "error"
                                 /\ status[p].LastSync = 0

\* A call has returned the fetch error with status "error".
C7_Witness ==
    \E p \in Calls :
        /\ fetcher.Error
        /\ pc[p] = "returned"
        /\ retErr[p] = "FetchError"
        /\ status[p].Status = "error"

\* C8: a run whose feed client failed to fetch a page is reported with
\* status "error".
C8_PageErrorReported ==
    \A p \in Calls :
        (prod[p].pc = "failed" /\ retErr[p] # "none") => status[p].Status = "error"

\* The stocks among the received items.
StocksOf(log) == SelectSeq(log, LAMBDA m : m.kind = "stock")

RECURSIVE Concat(_)
\* The records of the SaveBatch calls of a log, in call order.
Concat(log) == IF log = <<>> THEN <<>> ELSE Head(log).recs \o Concat(Tail(log))

\* The records the run has prepared so far: those passed to SaveBatch and
\* those pending in the batch.
Processed(p) ==
    Concat(saveLog[p]) \o (IF pc[p] \in {"range", "flush", "final"} THEN batch[p] ELSE <<>>)

\* Every stock received so far has been prepared, in stream order.
AllProcessed(p) ==
    /\ Len(Processed(p)) = Len(StocksOf(recvLog[p]))
    /\ \A k \in DOMAIN Processed(p) : Processed(p)[k].ID = StocksOf(recvLog[p])[k].stock.ID

\* C9: an error item of the stream is skipped: it is not counted in
\* total_records and causes no repository call, every stock received before
\* or after it is processed, and a run whose fetch started consumes the
\* whole stream and returns status "completed" with a nil error.
C9_ErrorsSkipped ==
    \A p \in Calls :
        /\ totalRecords[p] = Len(StocksOf(recvLog[p]))
        /\ getByIDCalls[p] = Len(StocksOf(recvLog[p]))
        /\ AllProcessed(p)
        /\ (retErr[p] # "none" /\ prod[p].pc # "none") =>
              /\ retErr[p] = "nil"
              /\ status[p].Status = "completed"
              /\ status[p].TotalRecords = Len(StocksOf(recvLog[p]))
              /\ stocksChan[p] = <<>> /\ chanClosed[p]

\* A run received an error item first and stocks after it, processed the
\* stocks and completed.
C9_Witness ==
    \E p \in Calls :
        /\ retErr[p] = "nil" /\ status[p].Status = "completed"
        /\ Len(recvLog[p]) = 3
        /\ recvLog[p][1].kind = "error"
        /\ recvLog[p][2].kind = "stock" /\ recvLog[p][3].kind = "stock"
        /\ status[p].TotalRecords = 2
        /\ Len(Concat(saveLog[p])) = 2

Range(f) == {f[i] : i \in DOMAIN f}

\* C10: a failed SaveBatch does not abort the run: its records stay out of
\* the store and are in no other SaveBatch call, every stock received
\* before or after it is processed, and the run returns "completed" with a
\* nil error, having passed each of its records to SaveBatch once.
C10_SaveFailureTolerated ==
    \A p \in Calls :
        /\ \A i \in DOMAIN saveLog[p] : ~saveLog[p][i].ok =>
              /\ Range(saveLog[p][i].recs) \cap Range(store) = {}
              /\ \A j \in DOMAIN saveLog[p] \ {i} :
                    Range(saveLog[p][i].recs) \cap Range(saveLog[p][j].recs) = {}
        /\ AllProcessed(p)
        /\ (\E i \in DOMAIN saveLog[p] : ~saveLog[p][i].ok) => retErr[p] \in {"none", "nil"}
        /\ retErr[p] = "nil" => status[p].Status = "completed"
        /\ (retErr[p] = "nil" /\ pc[p] # "returned") =>
              Len(Concat(saveLog[p])) = status[p].TotalRecords

\* A run whose first SaveBatch failed went on, wrote a later batch and
\* completed; the records of the failed batch are not stored, those of the
\* later batch are.
C10_Witness ==
    \E p \in Calls :
        /\ retErr[p] = "nil" /\ status[p].Status = "completed"
        /\ Len(saveLog[p]) = 2
        /\ ~saveLog[p][1].ok /\ saveLog[p][2].ok
        /\ Range(saveLog[p][1].recs) \cap Range(store) = {}
        /\ Range(saveLog[p][2].recs) \subseteq Range(store)
        /\ status[p].TotalRecords = Len(Concat(saveLog[p]))


\* ------------------------------------------- recommendation-time scoring

\* calculateRatingScore: the table of rating labels; 40 for any other label.
calculateRatingScore(rating) ==
    CASE rating \in {"Buy", "Strong Buy"}                -> 100
      [] rating = "Outperform"                           -> 80
      [] rating = "Overweight"                           -> 70
      [] rating = "Accumulate"                           -> 60
      [] rating = "Hold"                                 -> 40
      [] rating = "Neutral"                              -> 35
      [] rating \in {"Market Perform", "Equal Weight"}   -> 30
      [] rating \in {"Underperform", "Underweight"}      -> 15
      [] rating = "Reduce"                               -> 10
      [] rating = "Sell"                                 -> 0
      [] rating = "Speculative"                          -> 50
      [] OTHER                                           -> 40

\* calculateActionScore: the table of actions; 50 for any other action.
calculateActionScore(action) ==
    CASE action \in {"target raised by", "upgraded by"}     -> 100
      [] action = "initiated by"                            -> 60
      [] action = "reiterated by"                           -> 50
      [] action \in {"target lowered by", "downgraded by"}  -> 0
      [] OTHER                                              -> 50

\* calculatePriceTargetScore on finite targets: 50 unless both are
\* positive, else the band of the percent change (to - from) / from * 100,
\* compared exactly.
calculatePriceTargetScore(from, to) ==
    IF from <= 0 \/ to <= 0 THEN 50
    ELSE LET d == 100 * (to - from)
         IN  CASE d > 50 * from  -> 100
               [] d > 20 * from  -> 80
               [] d > 10 * from  -> 70
               [] d > 0          -> 60
               [] d > -10 * from -> 40
               [] d > -20 * from -> 20
               [] OTHER          -> 0

\* CalculateScore, in hundredths: the weighted sum 0.40 rating + 0.35 action
\* + 0.25 price target, then (score + 100) / 2 rounded to 2 decimals.
CalculateScore(stock) ==
    RoundDiv(40 * calculateRatingScore(stock.RatingTo)
             + 35 * calculateActionScore(stock.Action)
             + 25 * calculatePriceTargetScore(stock.TargetFrom, stock.TargetTo)
             + 10000, 2)

\* ------------------------------------------------ GetTopRecommendations

\* The largest limit GetTopRecommendations accepts, and the limit it uses
\* for one it does not accept.
maxLimit == 100
defaultLimit == 10

\* Variant of EffectiveLimit: the limit is clamped to the nearer end of the
\* range.
EffectiveLimitClamped(limit) ==
    IF limit < 1 THEN 1 ELSE IF limit > maxLimit THEN maxLimit ELSE limit

\* The limit after "if limit < 1 || limit > 100 { limit = 10 }".
EffectiveLimit(limit) == IF limit < 1 \/ limit > maxLimit THEN defaultLimit ELSE limit

\* The arrangements of the elements of a sequence.
Perms(rows) ==
    {[i \in 1..Len(rows) |-> rows[f[i]]] :
        f \in {g \in [1..Len(rows) -> 1..Len(rows)] :
                  \A i, j \in 1..Len(rows) : g[i] = g[j] => i = j}}

\* The first n elements of a sequence.
FirstN(rows, n) == SubSeq(rows, 1, IF n < Len(rows) THEN n ELSE Len(rows))

\* Storage.GetTopRecommended: the rows in descending order of the stored
\* recommend_score, at most n of them. Rows with equal scores come in any
\* order, so the operator is the set of possible results.
GetTopRecommended(rows, n) ==
    {FirstN(q, n) : q \in {r \in Perms(rows) :
        \A i \in 1..(Len(rows) - 1) : r[i].RecommendScore >= r[i + 1].RecommendScore}}

\* The recommendation built for a candidate, before ranking.
Recommendation(stock) == [Stock |-> stock, Score |-> CalculateScore(stock), Rank |-> 0]

\* Variant of SortByScore: the candidates keep the order of the query.
SortByScoreSkipped(recs) == {recs}

\* sort.Slice with the comparison Score(i) > Score(j): a descending
\* arrangement; the sort is not stable, so equal scores come in any order.
SortByScore(recs) ==
    {r \in Perms(recs) : \A i \in 1..(Len(recs) - 1) : r[i].Score >= r[i + 1].Score}

\* "if len(recommendations) > limit { recommendations = recommendations[:limit] }"
Truncate(recs, limit) == FirstN(recs, limit)

\* The final loop: Rank = i + 1.
Ranked(recs) == [i \in 1..Len(recs) |-> [recs[i] EXCEPT !.Rank = i]]

\* The rows a sync stores for a feed item.
StoredRow(item, t) ==
    [convertToStock(item) EXCEPT !.RecommendScore = calculateRecommendScore(convertToStock(item)),
                                 !.CreatedAt = t, !.UpdatedAt = t]

ItemC == [Ticker |-> "GOOGL", Company |-> "Alphabet Inc.", Brokerage |-> "Morgan Stanley",
          Action |-> "upgraded by", RatingFrom |-> "Neutral", RatingTo |-> "Outperform",
          TargetFrom |-> Float(100000), TargetTo |-> Float(150000)]

ItemD == [Ticker |-> "NFLX", Company |-> "Netflix Inc.", Brokerage |-> "JP Morgan",
          Action |-> "upgraded by", RatingFrom |-> "Buy", RatingTo |-> "Strong Buy",
          TargetFrom |-> Float(100000), TargetTo |-> Float(151000)]

ItemE == [Ticker |-> "TSLA", Company |-> "Tesla Inc.", Brokerage |-> "UBS",
          Action |-> "reiterated by", RatingFrom |-> "Hold", RatingTo |-> "Hold",
          TargetFrom |-> Float(100000), TargetTo |-> Float(195000)]

\* The rows the stores of the query checks are made of, in insertion order.
QueryRows ==
    <<StoredRow(ItemA, 1), StoredRow(ItemB, 1), StoredRow(ItemC, 1),
      StoredRow(ItemD, 1), StoredRow(ItemE, 1)>>

\* The stores of the query checks: every selection of QueryRows.
QueryStores ==
    {SelectSeq(QueryRows, LAMBDA r : r \in S) : S \in SUBSET {QueryRows[i] : i \in DOMAIN QueryRows}}

\* The limits asked for: below, at and above both ends of [1,100].
QueryLimits == {-1, 0, 1, 2, 3, maxLimit, maxLimit + 1, 10 * maxLimit}

\* Every variable of the sync pipeline is as NewService leaves it.
SyncIdle ==
    /\ syncMutex = 0
    /\ syncInProg = FALSE
    /\ lastSync = 0
    /\ fetcher = [kind |-> "stream", Error |-> FALSE]
    /\ pair = NoPair
    /\ clock = 0
    /\ ctxDone = [p \in Calls |-> FALSE]
    /\ pc = [p \in Calls |-> "lock"]
    /\ status = [p \in Calls |-> NilStatus]
    /\ retErr = [p \in Calls |-> "none"]
    /\ batch = [p \in Calls |-> <<>>]
    /\ totalRecords = [p \in Calls |-> 0]
    /\ newRecords = [p \in Calls |-> 0]
    /\ stocksChan = [p \in Calls |-> <<>>]
    /\ chanClosed = [p \in Calls |-> FALSE]
    /\ prod = [p \in Calls |-> NoProducer]
    /\ getByIDCalls = [p \in Calls |-> 0]
    /\ saveLog = [p \in Calls |-> <<>>]
    /\ recvLog = [p \in Calls |-> <<>>]
    /\ storeAtStart = <<>>

\* A function call leaves the sync pipeline, the store and its own
\* arguments alone.
CallFrame ==
    /\ UNCHANGED <<svcVars, store, fetcher, faulty, pair, req, clock, ctxDone, pc>>
    /\ UNCHANGED <<callVars, feedVars, histVars>>

\* A store and a limit are chosen; the call has not returned.
TopInit ==
    /\ SyncIdle
    /\ store \in QueryStores
    /\ faulty \in BOOLEAN
    /\ req \in [fn : {"GetTopRecommendations"}, limit : QueryLimits]
    /\ resp = NoCall

\* GetTopRecommendations when the repository query succeeds.
GetTopRecommendations ==
    /\ req.fn = "GetTopRecommendations" /\ resp = NoCall
    /\ \E stocks \in GetTopRecommended(store, EffectiveLimit(req.limit) * 2) :
       \E sorted \in SortByScore([i \in 1..Len(stocks) |-> Recommendation(stocks[i])]) :
          resp' = [fn    |-> "GetTopRecommendations",
                   asked |-> EffectiveLimit(req.limit) * 2,
                   recs  |-> Ranked(Truncate(sorted, EffectiveLimit(req.limit))),
                   err   |-> "nil"]
    /\ CallFrame

\* GetTopRecommendations when the repository query fails: nil and the error.
GetTopRecommendationsFails ==
    /\ req.fn = "GetTopRecommendations" /\ resp = NoCall
    /\ faulty
    /\ resp' = [fn    |-> "GetTopRecommendations",
                asked |-> EffectiveLimit(req.limit) * 2,
                recs  |-> <<>>,
                err   |-> "StorageError"]
    /\ CallFrame

TopNext == GetTopRecommendations \/ GetTopRecommendationsFails

SpecTop == TopInit /\ [][TopNext]_vars

\* C11: GetTopRecommendations returns at most the effective limit of
\* items, each item's score is the freshly computed score of its stock and
\* is at most its predecessor's, and the ranks are 1..len(result) in order.
C11_RankedDescending ==
    resp # NoCall =>
        /\ Len(resp.recs) <= EffectiveLimit(req.limit)
        /\ \A i \in DOMAIN resp.recs :
              /\ resp.recs[i].Rank = i
              /\ resp.recs[i].Score = CalculateScore(resp.recs[i].Stock)
              /\ i > 1 => resp.recs[i].Score <= resp.recs[i - 1].Score

\* A call with limit 2 on a store of five rows returned two items whose
\* scores differ.
C11_Witness ==
    /\ resp # NoCall /\ resp.err = "nil"
    /\ req.limit = 2 /\ Len(store) = 5
    /\ Len(resp.recs) = 2
    /\ resp.recs[2].Score < resp.recs[1].Score

\* C12: a limit outside [1,100] is replaced by 10, the repository is asked
\* for exactly twice the effective limit, and the result never has more
\* items than the repository holds.
C12_LimitDefault ==
    resp # NoCall =>
        /\ (req.limit < 1 \/ req.limit > 100) => resp.asked = 20
        /\ (req.limit >= 1 /\ req.limit <= 100) => resp.asked = 2 * req.limit
        /\ Len(resp.recs) <= Len(store)
        /\ Len(resp.recs) <= resp.asked \div 2

\* A call with a limit above 100 on a store of five rows asked for 20
\* candidates and returned the five rows.
C12_Witness ==
    /\ resp # NoCall /\ resp.err = "nil"
    /\ req.limit > 100 /\ Len(store) = 5
    /\ resp.asked = 20
    /\ Len(resp.recs) = 5


\* ------------------------------------- scoring over all float64 values

\* A float64: a finite value (targets in thousandths, scores in
\* hundredths), an infinity, or NaN.
Fin(v) == [k |-> "fin", v |-> v]
PosInf == [k |-> "inf"]
NegInf == [k |-> "ninf"]
NaN    == [k |-> "nan"]

\* x > 0 and x <= 0 on float64; both are false for NaN.
Positive(x) == x.k = "inf" \/ (x.k = "fin" /\ x.v > 0)
NotPositive(x) == x.k = "ninf" \/ (x.k = "fin" /\ x.v <= 0)

\* A JSON value that is neither a number nor text.
Bool == [type |-> "bool"]

\* strconv.ParseFloat(val, 64): the special names give the infinities and
\* NaN, signed or unsigned decimal text gives its value, and any other text
\* is an error. Of the spellings of the special names the mixed-case ones
\* are listed.
ParseFloat64(cs) ==
    CASE cs \in {<<"I", "n", "f">>, <<"+", "I", "n", "f">>} -> [err |-> FALSE, f |-> PosInf]
      [] cs = <<"-", "I", "n", "f">>                         -> [err |-> FALSE, f |-> NegInf]
      [] cs = <<"N", "a", "N">>                              -> [err |-> FALSE, f |-> NaN]
      [] cs # <<>> /\ Head(cs) = "-" /\ ParseFloatText(Tail(cs)) >= 0
                              -> [err |-> FALSE, f |-> Fin(-ParseFloatText(Tail(cs)))]
      [] ParseFloatText(cs) >= 0 -> [err |-> FALSE, f |-> Fin(ParseFloatText(cs))]
      [] OTHER                   -> [err |-> TRUE]

\* Variant of parseFloat64: text that does not parse gives NaN.
parseFloat64Unchecked(v) ==
    CASE v.type = "float64" -> Fin(v.val)
      [] v.type = "string"  -> IF ParseFloat64(v.text).err THEN NaN ELSE ParseFloat64(v.text).f
      [] OTHER              -> Fin(0)

\* parseFloat over every JSON value: a number as is, text by
\* strconv.ParseFloat when that succeeds, and 0 for everything else.
parseFloat64(v) ==
    CASE v.type = "float64" -> Fin(v.val)
      [] v.type = "string"  -> IF ParseFloat64(v.text).err THEN Fin(0) ELSE ParseFloat64(v.text).f
      [] OTHER              -> Fin(0)

\* calculateRecommendScore over every float64 target. The price change is
\* added only when from > 0 && to > 0. With both finite it is the exact
\* value; with from = +Inf it is (to - Inf) / Inf = NaN, which passes both
\* clamps and math.Round; with to = +Inf and from finite it is +Inf, which
\* the upper clamp turns into 100.
calculateRecommendScore64(rating, action, from, to) ==
    LET stock == [RatingTo |-> rating, Action |-> action, TargetFrom |-> 0, TargetTo |-> 0]
    IN  IF from.k = "fin" /\ to.k = "fin"
        THEN Fin(calculateRecommendScore([stock EXCEPT !.TargetFrom = from.v,
                                                       !.TargetTo = to.v]))
        ELSE IF ~(Positive(from) /\ Positive(to)) THEN Fin(calculateRecommendScore(stock))
        ELSE IF from.k = "inf" THEN NaN
        ELSE Fin(10000)

\* calculatePriceTargetScore over every float64 target: 50 when from <= 0
\* or to <= 0; else the band of the percent change, where a NaN change
\* (a NaN target, or from = +Inf) fails every comparison and gives 0, and
\* a +Inf change gives 100.
calculatePriceTargetScore64(from, to) ==
    IF NotPositive(from) \/ NotPositive(to) THEN 50
    ELSE IF from.k = "fin" /\ to.k = "fin" THEN calculatePriceTargetScore(from.v, to.v)
    ELSE IF from.k = "fin" /\ to.k = "inf" THEN 100
    ELSE 0

\* CalculateScore over every float64 target, in hundredths.
CalculateScore64(rating, action, from, to) ==
    Fin(RoundDiv(40 * calculateRatingScore(rating)
                 + 35 * calculateActionScore(action)
                 + 25 * calculatePriceTargetScore64(from, to)
                 + 10000, 2))

\* generateReason, the rating switch: the phrase appended, if any.
RatingReason(rating) ==
    CASE rating \in {"Buy", "Strong Buy"}      -> <<"Strong buy recommendation from analyst">>
      [] rating \in {"Outperform", "Overweight"} -> <<"Expected to outperform the market">>
      [] rating \in {"Hold", "Neutral"}        -> <<"Stable performance expected">>
      [] rating \in {"Sell", "Underperform"}   -> <<"Caution advised - underperformance expected">>
      [] OTHER                                 -> <<>>

\* generateReason, the action switch: the phrase appended, if any.
ActionReason(action) ==
    CASE action = "target raised by"  -> <<"Price target recently increased">>
      [] action = "upgraded by"       -> <<"Recently upgraded by analyst">>
      [] action = "target lowered by" -> <<"Price target recently decreased">>
      [] action = "downgraded by"     -> <<"Recently downgraded by analyst">>
      [] OTHER                        -> <<>>

\* Variant of TargetReason: the upside phrase is appended from a change of
\* 10 percent on.
TargetReasonFromTen(from, to) ==
    IF ~(Positive(from) /\ Positive(to)) THEN <<>>
    ELSE IF from.k = "fin" /\ to.k = "fin"
    THEN IF 10 * (to.v - from.v) >= from.v
         THEN <<"Significant upside potential in price target">>
         ELSE IF 10 * (to.v - from.v) < -from.v
         THEN <<"Notable downside risk in price target">>
         ELSE <<>>
    ELSE IF from.k = "fin" THEN <<"Significant upside potential in price target">>
    ELSE <<>>

\* generateReason, the price-target change when both targets are positive:
\* change = (to - from) / from * 100 is compared with 10 and -10. With to =
\* +Inf over a finite from the change is +Inf; with from = +Inf it is NaN,
\* which fails both comparisons.
TargetReason(from, to) ==
    IF ~(Positive(from) /\ Positive(to)) THEN <<>>
    ELSE IF from.k = "fin" /\ to.k = "fin"
    THEN IF 10 * (to.v - from.v) > from.v
         THEN <<"Significant upside potential in price target">>
         ELSE IF 10 * (to.v - from.v) < -from.v
         THEN <<"Notable downside risk in price target">>
         ELSE <<>>
    ELSE IF from.k = "fin" THEN <<"Significant upside potential in price target">>
    ELSE <<>>

\* generateReason: the slice reasons before the result is built.
generateReasons(rating, action, from, to) ==
    RatingReason(rating) \o ActionReason(action) \o TargetReason(from, to)

RECURSIVE JoinReasons(_, _, _)
\* generateReason, the loop for i := 1; i < len(reasons) && i < 3.
JoinReasons(result, reasons, i) ==
    IF i < Len(reasons) /\ i < 3
    THEN JoinReasons(result \o ". " \o reasons[i + 1], reasons, i + 1)
    ELSE result

\* generateReason: the fallback phrase for no reasons, else the first
\* reason followed by the others up to the third.
generateReason(rating, action, from, to) ==
    LET reasons == generateReasons(rating, action, from, to)
    IN  IF Len(reasons) = 0 THEN "Based on current market analysis"
        ELSE JoinReasons(reasons[1], reasons, 1)

\* The target values of the feed items scored: numbers (positive, zero,
\* negative, very small and very large), numeric text, the special names,
\* text that is no number, and values that are neither number nor text.
ScoreTargets ==
    {Float(100000), Float(110000), Float(150000), Float(50000), Float(0), Float(-5000),
     Float(1), Float(200000),
     Text(<<"1", "5", "0", ".", "5">>), Text(<<"-", "2">>),
     Text(<<"I", "n", "f">>), Text(<<"-", "I", "n", "f">>), Text(<<"N", "a", "N">>),
     Text(<<"N", "/", "A">>), Text(<<>>), Null, Bool}

ScoreRatings == {"Buy", "Strong Buy", "Outperform", "Hold", "Neutral", "Sell", "Unrated"}

ScoreActions ==
    {"target raised by", "upgraded by", "initiated by", "target lowered by",
     "downgraded by", ""}

\* A feed item is chosen; it has not been scored.
ScoreInit ==
    /\ SyncIdle
    /\ store = <<>>
    /\ faulty = FALSE
    /\ req \in [fn : {"Score"}, RatingTo : ScoreRatings, Action : ScoreActions,
                TargetFrom : ScoreTargets, TargetTo : ScoreTargets]
    /\ resp = NoCall

\* The targets are parsed as convertToStock parses them and the record is
\* scored at ingest (calculateRecommendScore) and for a recommendation
\* (CalculateScore, with its price-target contribution, and generateReason
\* with the phrases it collects).
ScoreItem ==
    /\ req.fn = "Score" /\ resp = NoCall
    /\ LET from == parseFloat64(req.TargetFrom)
           to   == parseFloat64(req.TargetTo)
       IN  resp' = [fn     |-> "Score",
                    from   |-> from,
                    to     |-> to,
                    ingest |-> calculateRecommendScore64(req.RatingTo, req.Action, from, to),
                    price  |-> calculatePriceTargetScore64(from, to),
                    score  |-> CalculateScore64(req.RatingTo, req.Action, from, to),
                    reasons |-> generateReasons(req.RatingTo, req.Action, from, to),
                    reason |-> generateReason(req.RatingTo, req.Action, from, to)]
    /\ CallFrame

ScoreNext == ScoreItem

SpecScore == ScoreInit /\ [][ScoreNext]_vars

\* A score, in hundredths, lies in [lo, hi].
ScoreIn(x, lo, hi) == x.k = "fin" /\ x.v >= 100 * lo /\ x.v <= 100 * hi

\* C13: for every record both the ingest-time score and the
\* recommendation-time score lie in [0,100].
C13_ScoresBounded ==
    resp # NoCall => ScoreIn(resp.ingest, 0, 100) /\ ScoreIn(resp.score, 0, 100)

\* C14: the recommendation-time score of Buy / "target raised by" /
\* 100 -> 150 lies in [70,100], of Sell / "downgraded by" / 100 -> 50 in
\* [0,30], and of Neutral with no action and no targets in [30,60].
C14_Bands ==
    resp # NoCall =>
        /\ (/\ req.RatingTo = "Buy" /\ req.Action = "target raised by"
            /\ req.TargetFrom = Float(100000) /\ req.TargetTo = Float(150000))
              => ScoreIn(resp.score, 70, 100)
        /\ (/\ req.RatingTo = "Sell" /\ req.Action = "downgraded by"
            /\ req.TargetFrom = Float(100000) /\ req.TargetTo = Float(50000))
              => ScoreIn(resp.score, 0, 30)
        /\ (/\ req.RatingTo = "Neutral" /\ req.Action = ""
            /\ req.TargetFrom = Float(0) /\ req.TargetTo = Float(0))
              => ScoreIn(resp.score, 30, 60)

\* The target values that are neither a number nor numeric text.
NotNumeric == {Text(<<"N", "/", "A">>), Text(<<>>), Null, Bool}

\* The ingest-time score without a price-change adjustment.
IngestBase(rating, action) ==
    LET b == 50 + IngestRatingDelta(rating) + IngestActionDelta(action)
    IN  100 * (IF b > 100 THEN 100 ELSE IF b < 0 THEN 0 ELSE b)

\* C16: parseFloat returns a value for every input; a target that is
\* neither a number nor numeric text becomes 0, and a record with such a
\* target gets the price-target contribution 50 in the recommendation-time
\* score and no price-change adjustment in the ingest-time score.
C16_CoercedToZero ==
    resp # NoCall =>
        /\ resp.from.k \in {"fin", "inf", "ninf", "nan"}
        /\ resp.to.k \in {"fin", "inf", "ninf", "nan"}
        /\ req.TargetFrom \in NotNumeric => resp.from = Fin(0)
        /\ req.TargetTo \in NotNumeric => resp.to = Fin(0)
        /\ (req.TargetFrom \in NotNumeric \/ req.TargetTo \in NotNumeric) =>
              /\ resp.price = 50
              /\ resp.ingest = Fin(IngestBase(req.RatingTo, req.Action))

\* A record with target_from "N/A" and a positive target_to was scored.
C16_Witness ==
    /\ resp # NoCall
    /\ req.TargetFrom = Text(<<"N", "/", "A">>)
    /\ req.TargetTo = Float(150000)
    /\ resp.from = Fin(0) /\ resp.price = 50


\* ------------------------------------------------------------ GetStocks

\* Largest number of rows of a store a page is taken from.
MaxRows == 120

\* The largest page size GetStocks accepts, and the size it uses for one it
\* does not accept.
maxPageSize == 100
defaultPageSize == 20

\* "if filter.Page < 1 { filter.Page = 1 }"
EffectivePage(page) == IF page < 1 THEN 1 ELSE page

\* "if filter.PageSize < 1 || filter.PageSize > 100 { filter.PageSize = 20 }"
EffectivePageSize(pageSize) ==
    IF pageSize < 1 \/ pageSize > maxPageSize THEN defaultPageSize ELSE pageSize

\* Variant of PageOffset: pages are counted from 0.
PageOffsetFromZero(page, pageSize) == page * pageSize

\* applyPagination: offset := (page - 1) * pageSize.
PageOffset(page, pageSize) == (page - 1) * pageSize

\* applyPagination followed by Find: Offset(offset).Limit(pageSize) of the
\* rows in the order of the query.
applyPagination(rows, page, pageSize) ==
    LET size   == EffectivePageSize(pageSize)
        offset == PageOffset(EffectivePage(page), size)
        last   == IF offset + size < Len(rows) THEN offset + size ELSE Len(rows)
    IN  SubSeq(rows, offset + 1, last)

\* int(math.Ceil(float64(total) / float64(pageSize)))
CeilDiv(total, pageSize) == (total + pageSize - 1) \div pageSize

\* The stores a page is taken from: n rows, in the order of the query.
PageStores == {[i \in 1..n |-> [ID |-> NatToStr(i)]] : n \in 0..MaxRows}

\* Pages and page sizes asked for: below, inside and above the range.
PageNumbers == {-1, 0, 1, 2, 3, 6, 7}
PageSizes == {-1, 0, 1, 2, 3, defaultPageSize, maxPageSize, maxPageSize + 1}

\* A store, a page and a page size are chosen; the call has not returned.
PageInit ==
    /\ SyncIdle
    /\ store \in PageStores
    /\ faulty \in BOOLEAN
    /\ req \in [fn : {"GetStocks"}, page : PageNumbers, pageSize : PageSizes]
    /\ resp = NoCall

\* GetStocks when Storage.GetAll succeeds: page and page size are
\* normalised, GetAll counts the rows and reads the page, and the response
\* carries the page with the totals.
GetStocks ==
    /\ req.fn = "GetStocks" /\ resp = NoCall
    /\ resp' = [fn         |-> "GetStocks",
                Data       |-> applyPagination(store, EffectivePage(req.page),
                                               EffectivePageSize(req.pageSize)),
                Page       |-> EffectivePage(req.page),
                PageSize   |-> EffectivePageSize(req.pageSize),
                TotalItems |-> Len(store),
                TotalPages |-> CeilDiv(Len(store), EffectivePageSize(req.pageSize)),
                err        |-> "nil"]
    /\ CallFrame

\* GetStocks when Storage.GetAll fails: nil and the error.
GetStocksFails ==
    /\ req.fn = "GetStocks" /\ resp = NoCall
    /\ faulty
    /\ resp' = [fn |-> "GetStocks", err |-> "StorageError"]
    /\ CallFrame

PageNext == GetStocks \/ GetStocksFails

SpecPage == PageInit /\ [][PageNext]_vars

\* C15: GetStocks uses page 1 for a page below 1 and page size 20 for a
\* page size outside [1,100]; total_pages is ceil(total_items / page_size)
\* for the size used; and page p holds the
\* min(page_size, max(0, total_items - (p-1)*page_size)) rows that follow
\* the first (p-1)*page_size rows.
C15_Pagination ==
    (resp # NoCall /\ resp.err = "nil") =>
        LET size  == IF req.pageSize >= 1 /\ req.pageSize <= 100 THEN req.pageSize ELSE 20
            page  == IF req.page < 1 THEN 1 ELSE req.page
            total == Len(store)
            rest  == IF total - (page - 1) * size > 0 THEN total - (page - 1) * size ELSE 0
        IN  /\ resp.Page = page
            /\ resp.PageSize = size
            /\ resp.TotalItems = total
            /\ resp.TotalPages * size >= total
            /\ (resp.TotalPages - 1) * size < total
            /\ Len(resp.Data) = (IF size < rest THEN size ELSE rest)
            /\ \A i \in DOMAIN resp.Data : resp.Data[i] = store[(page - 1) * size + i]

\* Three rows read with page size 2: two pages, and the second page has
\* one row.
C15_Witness ==
    /\ resp # NoCall /\ resp.err = "nil"
    /\ Len(store) = 3 /\ req.pageSize = 2 /\ req.page = 2
    /\ resp.TotalPages = 2
    /\ Len(resp.Data) = 1


\* ------------------------------------------------- the HTTP sync handler

\* net/http status codes the handler answers with.
StatusOK == 200
StatusConflict == 409
StatusInternalServerError == 500

\* status.LastSync.Format(RFC 3339): the text of a time; the zero time has
\* its own text.
FormatTime(t) == IF t = 0 THEN "0001-01-01T00:00:00Z" ELSE "T+" \o NatToStr(t)

\* c.JSON with an ErrorResponse.
ErrorResponse(code, error, message) ==
    [code |-> code, body |-> [error |-> error, message |-> message]]

\* c.JSON(200, SyncResponse{...}) for the summary SyncStocks returned.
SyncResponse(st) ==
    [code |-> StatusOK,
     body |-> [status          |-> st.Status,
               total_records   |-> st.TotalRecords,
               new_records     |-> st.NewRecords,
               updated_records |-> st.UpdatedRecords,
               last_sync       |-> FormatTime(st.LastSync)]]

\* Variant of HandleSync: every error is answered alike.
HandleSyncNoConflict(st, err) ==
    IF err # "nil" THEN ErrorResponse(StatusInternalServerError, "Internal server error", err)
    ELSE SyncResponse(st)

\* API.SyncStocks after the service call returned (st, err).
HandleSync(st, err) ==
    IF err # "nil"
    THEN IF err = "ErrSyncInProgress"
         THEN ErrorResponse(StatusConflict, "Conflict", "Sync already in progress")
         ELSE ErrorResponse(StatusInternalServerError, "Internal server error", err)
    ELSE SyncResponse(st)

\* What Service.SyncStocks returns: nil and ErrSyncInProgress for a
\* rejected call, a summary with status "error" and the fetch error, or a
\* summary of a completed run and a nil error.
SyncOutcomes ==
    {[fn |-> "SyncStocks", status |-> NilStatus, err |-> "ErrSyncInProgress"],
     [fn |-> "SyncStocks", status |-> [NilStatus EXCEPT !.Status = "error"], err |-> "FetchError"]}
    \cup
    UNION {{[fn |-> "SyncStocks", err |-> "nil",
             status |-> [Status |-> "completed", LastSync |-> t, TotalRecords |-> n,
                         NewRecords |-> m, UpdatedRecords |-> n - m]] :
               t \in 1..(4 * MaxStream), m \in 0..n} : n \in 0..MaxStream}

\* The service call of a sync request has returned; no answer is written.
HTTPInit ==
    /\ SyncIdle
    /\ store = <<>>
    /\ faulty = FALSE
    /\ req \in SyncOutcomes
    /\ resp = NoCall

\* API.SyncStocks writes the answer.
APISyncStocks ==
    /\ req.fn = "SyncStocks" /\ resp = NoCall
    /\ resp' = HandleSync(req.status, req.err)
    /\ CallFrame

HTTPNext == APISyncStocks

SpecHTTP == HTTPInit /\ [][HTTPNext]_vars

\* C17: the handler answers 409 exactly when SyncStocks returned
\* ErrSyncInProgress, 200 with status, total_records, new_records,
\* updated_records and last_sync of the summary when it returned no error,
\* and an error response, never a 200 summary, for any other error.
C17_SyncAnswers ==
    resp # NoCall =>
        /\ resp.code = 409 <=> req.err = "ErrSyncInProgress"
        /\ req.err = "nil" =>
              /\ resp.code = 200
              /\ DOMAIN resp.body = {"status", "total_records", "new_records",
                                     "updated_records", "last_sync"}
              /\ resp.body.status = req.status.Status
              /\ resp.body.total_records = req.status.TotalRecords
              /\ resp.body.new_records = req.status.NewRecords
              /\ resp.body.updated_records = req.status.UpdatedRecords
        /\ req.err # "nil" =>
              /\ resp.code # 200
              /\ DOMAIN resp.body = {"error", "message"}

\* A rejected sync was answered 409.
C17_Witness ==
    /\ resp # NoCall
    /\ req.err = "ErrSyncInProgress"
    /\ resp.code = 409


\* -------------------------------------------------------------- start-up

\* getEnv: the value of the variable, or the default when it is unset or
\* empty (os.Getenv gives "" for both).
getEnv(env, key, defaultValue) == IF env[key] # "" THEN env[key] ELSE defaultValue

\* config.Load, the part the API is built from: it has no failing path.
Load(env) ==
    [cfg |-> [External |-> [KarenAIToken |-> getEnv(env, "KARENAI_TOKEN", "")],
              Auth     |-> [Username |-> getEnv(env, "BASIC_AUTH_USER", "admin"),
                            Password |-> getEnv(env, "BASIC_AUTH_PASSWORD",
                                                "stockviewer2024")]],
     err |-> "nil"]

\* The environments the process is started in: each variable unset ("")
\* or set to a value.
StartEnvs ==
    [KARENAI_TOKEN       : {"", "token"},
     BASIC_AUTH_USER     : {"", "ops", "admin"},
     BASIC_AUTH_PASSWORD : {"", "s3cret", "stockviewer2024"}]

\* The credentials of a request to the protected route: none, or a user
\* and a password.
Credentials ==
    {[hasAuth |-> FALSE, user |-> "", password |-> ""]}
    \cup [hasAuth : {TRUE}, user : {"admin", "ops"},
          password : {"stockviewer2024", "s3cret", ""}]

\* The process is about to run main.
StartInit ==
    /\ SyncIdle
    /\ store = <<>>
    /\ faulty \in BOOLEAN
    /\ req \in [fn : {"main"}, env : StartEnvs]
    /\ resp = NoCall

\* main up to the point where the server listens: config.Load, then
\* initDatabase, which ends the process when the database cannot be
\* reached, then httpapi.New with the credentials of the configuration.
Start ==
    /\ req.fn = "main" /\ resp = NoCall
    /\ resp' = IF Load(req.env).err # "nil" THEN [fn |-> "main", started |-> FALSE,
                                                   err |-> Load(req.env).err]
               ELSE IF faulty THEN [fn |-> "main", started |-> FALSE,
                                    err |-> "ErrDatabaseConnection"]
               ELSE [fn |-> "main", started |-> TRUE, err |-> "nil",
                     basicAuthUser     |-> Load(req.env).cfg.Auth.Username,
                     basicAuthPassword |-> Load(req.env).cfg.Auth.Password,
                     answers           |-> <<>>]
    /\ CallFrame

\* BasicAuthMiddleware on a request to POST /api/v1/sync: 401 unless the
\* request carries the configured user and password, else the handler runs.
BasicAuthMiddleware ==
    /\ resp # NoCall /\ resp.started /\ resp.answers = <<>>
    /\ \E c \in Credentials :
          resp' = [resp EXCEPT !.answers =
                      <<[credentials |-> c,
                         answer |-> IF \/ ~c.hasAuth
                                       \/ c.user # resp.basicAuthUser
                                       \/ c.password # resp.basicAuthPassword
                                    THEN "401" ELSE "next"]>>]
    /\ CallFrame

StartNext == Start \/ BasicAuthMiddleware

SpecStart == StartInit /\ [][StartNext]_vars

\* C18: the application does not start when BASIC_AUTH_PASSWORD is not
\* set, and the password that guards the sync endpoint is always the one
\* of the environment, never a built-in one.
C18_PasswordRequired ==
    (resp # NoCall /\ resp.started) =>
        /\ req.env.BASIC_AUTH_PASSWORD # ""
        /\ resp.basicAuthPassword = req.env.BASIC_AUTH_PASSWORD


\* --------------------------------------------- lookup errors and flushes

\* The stocks received whose GetByID lookup did not fail.
LookedUp(log) == SelectSeq(log, LAMBDA m : m.kind = "stock" /\ m.lookup # "StorageError")

\* C19: a record whose GetByID lookup fails with an error other than
\* not-found is skipped: it is not counted, not added to a batch and not
\* passed to SaveBatch, so the records counted and prepared are those whose
\* lookup did not fail.
C19_LookupErrorSkipped ==
    \A p \in Calls :
        /\ totalRecords[p] = Len(LookedUp(recvLog[p]))
        /\ Len(Processed(p)) = Len(LookedUp(recvLog[p]))

\* The position of a call is after the loop and its final flush.
Flushed(p) == pc[p] \in {"finish", "defer_lock", "defer_clear", "defer_unlock"}

\* C20: SaveBatch is called exactly when the pending batch reaches
\* batchSize records or the stream has ended with a non-empty batch: every
\* call carries between 1 and batchSize records, a call with fewer than
\* batchSize records is the last of the run and is made after the stream
\* ended, the loop never receives with a full batch pending, and nothing
\* prepared is left out of the calls once the final flush is done.
C20_FlushRule ==
    \A p \in Calls :
        /\ \A i \in DOMAIN saveLog[p] :
              /\ Len(saveLog[p][i].recs) >= 1
              /\ Len(saveLog[p][i].recs) <= batchSize
              /\ Len(saveLog[p][i].recs) < batchSize =>
                    /\ i = Len(saveLog[p])
                    /\ Flushed(p)
                    /\ stocksChan[p] = <<>> /\ chanClosed[p]
        /\ pc[p] = "range" => Len(batch[p]) < batchSize
        /\ pc[p] = "flush" => Len(batch[p]) = batchSize
        /\ (Flushed(p) /\ prod[p].pc # "none") =>
              /\ Len(Concat(saveLog[p])) = totalRecords[p]
              /\ retErr[p] = "nil" => status[p].TotalRecords = Len(Concat(saveLog[p]))

\* A completed run made two SaveBatch calls: one with a full batch inside
\* the loop and one with the rest after the stream ended.
C20_Witness ==
    \E p \in Calls :
        /\ retErr[p] = "nil" /\ status[p].Status = "completed"
        /\ Len(saveLog[p]) = 2
        /\ Len(saveLog[p][1].recs) = batchSize
        /\ Len(saveLog[p][2].recs) >= 1 /\ Len(saveLog[p][2].recs) < batchSize

\* ------------------------------------------------ the client's page loop

\* The goroutine of the call's producer has returned.
ProducerOver(p) == prod[p].pc \in {"done", "failed", "cancelled"}

\* C21: Client.FetchStocks fetches at most maxPages pages, whatever the
\* upstream answers; the stream is closed exactly when the goroutine is over,
\* which it is after maxPages pages, after a page with an empty next_page
\* and after a failed page fetch, with no further fetch.
C21_MaxPages ==
    \A p \in Calls :
        fetcher.kind = "client" =>
            /\ prod[p].fetched <= maxPages
            /\ chanClosed[p] <=> ProducerOver(p)
            /\ prod[p].pc = "loop" /\ prod[p].pageCount >= maxPages =>
                   ~ENABLED ClientFetchPage(p)
            /\ prod[p].pc = "failed" => prod[p].fetched = prod[p].pageCount + 1
            /\ prod[p].pc = "done" /\ prod[p].pageCount < maxPages =>
                   ~prod[p].more /\ prod[p].fetched = prod[p].pageCount + 1
            /\ ProducerOver(p) => ~ENABLED ClientFetchPage(p)

\* A client whose upstream always returned a next_page has fetched maxPages
\* pages and closed the stream.
C21_Witness ==
    \E p \in Calls :
        /\ fetcher.kind = "client"
        /\ prod[p].pc = "done"
        /\ prod[p].more
        /\ prod[p].fetched = maxPages
        /\ chanClosed[p]

\* C22: once the context is cancelled the adapter stops producing: every
\* step its goroutine takes from then on is the one that sends an error on
\* the stream and closes it (the context error at the top of the loop or in
\* the select, or the error of the page fetch the cancellation interrupted).
C22_CancelStops ==
    [][\A p \in Calls :
          /\ fetcher.kind \in {"client", "mock"}
          /\ ctxDone[p]
          /\ prod'[p] # prod[p]
          /\ prod'[p].pc # "none"
          => prod'[p].pc \in {"cancelled", "failed"}]_vars

\* ------------------------------------------------ the ingest-time score

\* |x|
Abs(x) == IF x < 0 THEN -x ELSE x

\* s, in hundredths, is round2(clamp[0,100](base + 0.5 * percent_change))
\* for the finite positive targets from and to, in thousandths:
\* base + 50 * (to - from) / from, stated on the numerator over from.
IsIngestScore(s, base, from, to) ==
    LET num == base * from + 50 * (to - from)
    IN  IF num > 100 * from THEN s = 10000
        ELSE IF num < 0 THEN s = 0
        ELSE Abs(s * from - 100 * num) <= from \div 2

\* The three records of TestCalculateRecommendScore are scored in their bands.
IngestBands ==
    /\ req.RatingTo = "Buy" /\ req.Action = "target raised by"
          => ScoreIn(resp.ingest, 70, 100)
    /\ req.RatingTo = "Sell" /\ req.Action = "target lowered by"
          => ScoreIn(resp.ingest, 0, 30)
    /\ req.RatingTo = "Neutral" /\ req.Action = "initiated by"
          => ScoreIn(resp.ingest, 40, 70)

RECURSIVE Joined(_)
\* The phrases joined with ". ".
Joined(phrases) ==
    IF Len(phrases) = 1 THEN phrases[1]
    ELSE phrases[1] \o ". " \o Joined(Tail(phrases))

\* The percent change of positive targets is above 10, or below -10.
Upside ==
    /\ Positive(resp.from) /\ Positive(resp.to) /\ resp.from.k = "fin"
    /\ resp.to.k = "fin" => 100 * (resp.to.v - resp.from.v) > 10 * resp.from.v
Downside ==
    /\ Positive(resp.from) /\ Positive(resp.to) /\ resp.from.k = "fin"
    /\ resp.to.k = "fin" /\ 100 * (resp.to.v - resp.from.v) < -10 * resp.from.v

\* C24: generateReason returns a non-empty text for every record: the
\* phrases that apply come in the order rating, action, price-target change
\* (upside for a change above 10 percent, downside below -10 percent), at
\* most 3 of them joined with ". ", and the fallback phrase exactly when no
\* phrase applies; Buy gives the buy phrase and "target raised by" the
\* price-target-increased phrase.
C24_Reason ==
    resp # NoCall =>
        LET r == resp.reasons
            hasRating == req.RatingTo \in {"Buy", "Strong Buy", "Outperform", "Hold",
                                           "Neutral", "Sell"}
            hasAction == req.Action \in {"target raised by", "upgraded by",
                                         "target lowered by", "downgraded by"}
            n(b) == IF b THEN 1 ELSE 0
        IN  /\ resp.reason # ""
            /\ Len(r) = n(hasRating) + n(hasAction) + n(Upside \/ Downside)
            /\ Len(r) <= 3
            /\ (resp.reason = "Based on current market analysis") <=> (Len(r) = 0)
            /\ Len(r) > 0 => resp.reason = Joined(r)
            /\ req.RatingTo = "Buy" => r[1] = "Strong buy recommendation from analyst"
            /\ req.Action = "target raised by" =>
                   r[1 + n(hasRating)] = "Price target recently increased"
            /\ Upside => r[Len(r)] = "Significant upside potential in price target"
            /\ Downside => r[Len(r)] = "Notable downside risk in price target"

\* A Buy record with "target raised by" and the targets 100 -> 150 got the
\* three phrases, joined.
C24_Witness ==
    /\ resp # NoCall
    /\ req.RatingTo = "Buy" /\ req.Action = "target raised by"
    /\ req.TargetFrom = Float(100000) /\ req.TargetTo = Float(150000)
    /\ resp.reason = "Strong buy recommendation from analyst. Price target recently increased. Significant upside potential in price target"

\* ------------------------------------------------ the counts of a run

\* The ids of the rows.
IDsOf(rows) == {rows[i].ID : i \in DOMAIN rows}

\* The call has filled in the summary of a completed run and has not yet
\* released the flag.
Completed(p) ==
    /\ pc[p] \in {"defer_lock", "defer_clear", "defer_unlock"}
    /\ retErr[p] = "nil"

\* Every GetByID and SaveBatch call of the run succeeded.
RepositorySucceeded(p) ==
    /\ \A i \in DOMAIN recvLog[p] :
          recvLog[p][i].kind = "stock" => recvLog[p][i].lookup # "StorageError"
    /\ \A i \in DOMAIN saveLog[p] : saveLog[p][i].ok

\* C25: in a completed run in which every repository call succeeded,
\* new_records is the number of ids absent from the store before the run
\* and present after it, also when the feed delivers a record more than
\* once, and total_records = new_records + updated_records = the number of
\* non-error stream items.
C25_NewRecordsCount ==
    \A p \in Calls :
        Completed(p) /\ RepositorySucceeded(p) =>
            /\ status[p].NewRecords = Cardinality(IDsOf(store) \ IDsOf(storeAtStart))
            /\ status[p].TotalRecords = status[p].NewRecords + status[p].UpdatedRecords
            /\ status[p].TotalRecords = Len(StocksOf(recvLog[p]))

\* ------------------------------------------------ the top of the store

\* C26: GetTopRecommendations returns the top of the whole store by fresh
\* score: no stored record that is missing from the result has a strictly
\* higher recommendation-time score than a record in the result.
C26_TrueTop ==
    (resp # NoCall /\ resp.err = "nil") =>
        \A k \in DOMAIN store :
            (\A i \in DOMAIN resp.recs : resp.recs[i].Stock.ID # store[k].ID) =>
                \A i \in DOMAIN resp.recs : CalculateScore(store[k]) <= resp.recs[i].Score

\* ------------------------------------------------ the timestamps written

\* C27: every record a run passes to SaveBatch has created_at earlier than
\* or equal to updated_at, whether it was classified new or found or its
\* lookup failed.
C27_CreatedBeforeUpdated ==
    \A p \in Calls :
        \A i \in DOMAIN saveLog[p] :
            \A k \in DOMAIN saveLog[p][i].recs :
                saveLog[p][i].recs[k].CreatedAt <= saveLog[p][i].recs[k].UpdatedAt

\* ------------------------------------------------ progress of a run

\* C28: under fair scheduling every run fed by Client.FetchStocks returns
\* and the in-progress flag becomes false again; the producer is never
\* blocked on a send forever and the channel is always closed in the end.
C28_RunsReturn ==
    /\ \A p \in Calls : (pc[p] \in Running) ~> (pc[p] = "returned")
    /\ syncInProg ~> ~syncInProg
    /\ \A p \in Calls : (prod[p].pc \in {"loop", "send", "page_error"}) ~> chanClosed[p]

\* A run fed by the client received more records than the channel holds
\* and has returned.
C28_Witness ==
    \E p \in Calls :
        /\ fetcher.kind = "client"
        /\ pc[p] = "returned" /\ retErr[p] = "nil"
        /\ status[p].TotalRecords > chanCap

\* ------------------------------------------------ what a run writes

\* The record is the stock received, with the fields SyncStocks sets.
PreparedFrom(rec, stock) ==
    [rec EXCEPT !.RecommendScore = stock.RecommendScore,
                !.UpdatedAt = stock.UpdatedAt,
                !.CreatedAt = stock.CreatedAt] = stock

\* C29: within a run every non-error stream item is passed to SaveBatch
\* exactly once and in stream order: the records of the calls made so far,
\* followed by the pending batch, are the stocks received so far, one for
\* one, and after the final flush the calls alone are; no two SaveBatch
\* calls are in flight, as at most one call is at a flush.
C29_SavedOnce ==
    /\ \A p \in Calls :
          LET saved    == Concat(saveLog[p])
              received == StocksOf(recvLog[p])
              pending  == IF pc[p] \in {"range", "flush", "final"} THEN batch[p] ELSE <<>>
          IN  /\ Len(saved \o pending) = Len(received)
              /\ \A k \in DOMAIN received :
                    PreparedFrom((saved \o pending)[k], received[k].stock)
              /\ Flushed(p) => Len(saved) = Len(received)
    /\ Cardinality({p \in Calls : pc[p] \in {"range", "flush", "final"}}) <= 1

\* A run received three stocks and, the final flush done, has made two
\* SaveBatch calls: the batch slice was reused after the first.
C29_Witness ==
    \E p \in Calls :
        /\ Flushed(p)
        /\ Len(StocksOf(recvLog[p])) = 3
        /\ Len(saveLog[p]) = 2
        /\ Len(saveLog[p][2].recs) = 1

\* ------------------------------------------------ a rejected call

\* C30: a rejected SyncStocks call changes nothing: on each of its steps,
\* from finding the flag set to its return, the flag is set and stays set
\* for the running call, lastSync and the repository are unchanged, and
\* neither the fetcher nor the repository is called; the call returns
\* without a producer, a lookup or a write of its own.
C30_RejectChangesNothing ==
    [][\A p \in Calls :
          (\/ pc[p] = "check" /\ pc'[p] = "reject"
           \/ pc[p] = "reject" /\ pc'[p] = "returned") =>
              /\ syncInProg /\ syncInProg'
              /\ \E q \in Calls \ {p} : pc[q] \in Running /\ pc'[q] = pc[q]
              /\ lastSync' = lastSync
              /\ store' = store
              /\ clock' = clock
              /\ status' = status
              /\ <<stocksChan, chanClosed, prod>>' = <<stocksChan, chanClosed, prod>>
              /\ <<getByIDCalls, saveLog, recvLog>>' = <<getByIDCalls, saveLog, recvLog>>
              /\ prod[p] = NoProducer /\ getByIDCalls[p] = 0 /\ saveLog[p] = <<>>]_vars

\* A call has been rejected while the running one, with a batch written,
\* still holds the flag.
C30_Witness ==
    \E p, q \in Calls :
        /\ p # q
        /\ pc[p] = "returned" /\ Rejected(p)
        /\ prod[p] = NoProducer /\ getByIDCalls[p] = 0
        /\ pc[q] \in Running /\ syncInProg
        /\ Len(saveLog[q]) >= 1 /\ store # <<>>

====
